----------------------- MODULE RelationServiceProofs -----------------------
(***************************************************************************)
(* Theorems about RelationService, for any number of clients, streams and  *)
(* requests on the way, and whatever Permit lets go wrong.                 *)
(***************************************************************************)
EXTENDS RelationService, TLAPS

---------------------------------------------------------------------------
(* The invariant.                                                          *)

\* TypeOK without what it says about the marks, and with the terms of starts.
Types ==
  /\ present \subseteq Client
  /\ records \in [Client -> [Stream -> Record \cup {None}]]
  /\ status \in [Client -> SUBSET Stream]
  /\ call \in [Client -> Message \cup {None}]
  /\ reply \in [Client -> Reply \cup {None}]
  /\ wire \subseteq Message
  /\ streams \in [Stream -> {Idling} \cup Serving]
  /\ marks \subseteq Client \X Stream \X Mishap
  /\ failed \subseteq Client \X Stream
  /\ \A m \in wire : m.op = "start" => m.terms \in Terms
  /\ \A c \in Client : call[c] # None /\ call[c].op = "start" => call[c].terms \in Terms

\* What a client's thread waits for, and what may be on the way: a thread
\* that waits holds nothing on the stream it asks about, and is subscribed to
\* what it stops; a request that is not late is the one its client waits for
\* without an answer; and a start nobody waits for any more has failed.
Threads ==
  /\ \A c \in Client :
       /\ reply[c] # None => call[c] # None
       /\ c \notin present => call[c] = None /\ \A s \in Stream : ~Holds(c, s)
       /\ call[c] # None =>
            /\ call[c].client = c /\ ~call[c].late
            /\ ~Holds(c, call[c].stream)
            /\ call[c].op = "stop" => call[c].stream \in status[c]
       /\ \A s \in Stream : Holds(c, s) => s \in status[c]
  /\ \A m \in wire :
       /\ ~m.late => call[m.client] = m /\ reply[m.client] = None
       /\ m.late /\ m.op = "start" => <<m.client, m.stream>> \in failed

\* What befell a claim: nothing that ends it; nothing that keeps its news away.
Unharmed(c, s) == \A x \in {"struck", "lost", "ended"} : <<c, s, x>> \notin marks
Reached(c, s) == \A x \in {"lost", "missed"} : <<c, s, x>> \notin marks

Marked ==
  \A c \in Client, s \in Stream, x \in Mishap : <<c, s, x>> \in marks => Expects(c, s)

\* The terms of a claim and the status its client knows: by its record, or by
\* the answer out of which the record will be made.
ClaimTerms(c, s) == IF Holds(c, s) THEN records[c][s].terms ELSE call[c].terms
ClaimTold(c, s) == IF Holds(c, s) THEN records[c][s].told ELSE reply[c].status

\* What its client knows of a claim is the status of the stream, or the last
\* refusal of a start, which the subscriber of a holder hears too.
Informed(c, s) ==
  \/ ClaimTold(c, s) = streams[s].health
  \/ Holds(c, s) /\ ClaimTold(c, s) = Rejected
  \/ Holds(c, s) /\ ClaimTold(c, s) = NoPath /\ streams[s].by = {}

\* Every claim that nothing ended is served, and every one whose news arrives
\* is informed, from the answer on.
Served ==
  \A c \in Client, s \in Stream : Expects(c, s) =>
    /\ Unharmed(c, s) => c \in streams[s].by /\ streams[s].terms = ClaimTerms(c, s)
    /\ Reached(c, s) => Informed(c, s)

\* c has made a request about s which the engine may have acted on: it has
\* answered the start, or not yet the stop.
Underway(c, s) ==
  /\ call[c] # None /\ call[c].stream = s
  /\ call[c].op = "start" <=> reply[c] # None

\* Whoever is attached has a reason, or a process of that name that had one.
Accounted ==
  \A c \in Client, s \in Stream :
    c \in streams[s].by => Holds(c, s) \/ Underway(c, s) \/ <<c, s>> \in failed

---------------------------------------------------------------------------
(* Records, and the values there is no None among.                         *)

LEMMA Distinct ==
  /\ \A m \in Message : m # None
  /\ \A r \in Reply : r # None
  /\ \A r \in Record : r # None
BY NoneIsNoValue

\* A record is replaced, and the others stay.
LEMMA RecordsView ==
  ASSUME Types, NEW c \in Client, NEW s \in Stream, NEW v \in Record \cup {None},
         records' = [records EXCEPT ![c][s] = v]
  PROVE  /\ records' \in [Client -> [Stream -> Record \cup {None}]]
         /\ \A d \in Client, u \in Stream :
              records'[d][u] = IF d = c /\ u = s THEN v ELSE records[d][u]
BY DEF Types

\* Late keeps all of a request but that its client waits for it.
LEMMA LateView ==
  ASSUME NEW m \in Message
  PROVE  /\ Late(m) \in Message /\ Late(m).late
         /\ Late(m).client = m.client /\ Late(m).op = m.op
         /\ Late(m).stream = m.stream /\ Late(m).terms = m.terms
BY DEF Late, Message

\* A handle comes with an active or a pending stream, and names its topic.
LEMMA OkReply ==
  ASSUME NEW r \in Reply, from_reply(r) = "Ok"
  PROVE  r.status \in Running /\ r.assigned /\ r.topic # None
BY DEF Reply, from_reply, carries_handle, Active, Pending, Running

---------------------------------------------------------------------------
(* Types.                                                                  *)

\* The thread sends a request.
LEMMA AskTypes ==
  ASSUME Types, NEW c \in Client, NEW op \in {"start", "stop"}, NEW s \in Stream,
         NEW t \in Terms \cup {None}, op = "start" => t \in Terms, Ask(c, op, s, t)
  PROVE  \E m \in Message :
           /\ m.client = c /\ m.op = op /\ m.stream = s /\ m.terms = t /\ ~m.late
           /\ call' = [call EXCEPT ![c] = m] /\ wire' = wire \cup {m}
           /\ call' \in [Client -> Message \cup {None}]
           /\ wire' \subseteq Message
           /\ \A n \in wire' : n.op = "start" => n.terms \in Terms
           /\ \A d \in Client : call'[d] # None /\ call'[d].op = "start" =>
                call'[d].terms \in Terms
<1> DEFINE m == [client |-> c, op |-> op, stream |-> s, terms |-> t, late |-> FALSE]
<1>1. m \in Message /\ m.client = c /\ m.op = op /\ m.stream = s /\ m.terms = t /\ ~m.late
  BY DEF Message
<1>2. call' = [call EXCEPT ![c] = m] /\ wire' = wire \cup {m}
  BY DEF Ask
<1> HIDE DEF m
<1>3. \A d \in Client : call'[d] = IF d = c THEN m ELSE call[d]
  BY <1>2 DEF Types
<1> QED
  BY <1>1, <1>2, <1>3, ZenonT(30) DEF Types

\* The thread stops waiting.
LEMMA ReturnTypes ==
  ASSUME Types, NEW c \in Client, call' = [call EXCEPT ![c] = None]
  PROVE  /\ call' \in [Client -> Message \cup {None}]
         /\ \A d \in Client : call'[d] = IF d = c THEN None ELSE call[d]
         /\ \A d \in Client : call'[d] # None /\ call'[d].op = "start" =>
              call'[d].terms \in Terms
BY DEF Types

\* The request of one that gave up, or died, stays on its way.
LEMMA LateWire ==
  ASSUME Types, NEW c \in Client, call[c] # None,
         wire' = {IF m = call[c] THEN Late(m) ELSE m : m \in wire}
  PROVE  /\ wire' \subseteq Message
         /\ \A n \in wire' : n.op = "start" => n.terms \in Terms
         /\ \A n \in wire' : \/ n \in wire /\ n # call[c]
                             \/ call[c] \in wire /\ n = Late(call[c])
<1>1. \A n \in wire' : \/ n \in wire /\ n # call[c]
                       \/ call[c] \in wire /\ n = Late(call[c])
  OBVIOUS
<1>2. call[c] \in Message /\ Late(call[c]) \in Message
      /\ Late(call[c]).op = call[c].op /\ Late(call[c]).terms = call[c].terms
  BY LateView DEF Types
<1> QED
  BY <1>1, <1>2 DEF Types

\* Marks come and go as triples of their kind.
LEMMA MarksView ==
  ASSUME Types, NEW c \in Client, NEW s \in Stream
  PROVE  /\ Unmarked(c, s) \subseteq Client \X Stream \X Mishap
         /\ \A d \in Client, u \in Stream, x \in Mishap :
              <<d, u, x>> \in Unmarked(c, s) <=>
                <<d, u, x>> \in marks /\ (d # c \/ u # s)
BY DEF Types, Unmarked

LEMMA MarkView ==
  ASSUME NEW pairs \in SUBSET (Client \X Stream), NEW mishap \in Mishap
  PROVE  /\ Mark(pairs, mishap) \subseteq Client \X Stream \X Mishap
         /\ \A d \in Client, u \in Stream, x \in Mishap :
              <<d, u, x>> \in Mark(pairs, mishap) <=> <<d, u>> \in pairs /\ x = mishap
BY DEF Mark

\* Nobody waits for the answer of a late request; the others get one.
LEMMA RepliesView ==
  ASSUME Types, NEW m \in wire, NEW st \in 0 .. 6, NEW topic \in Stream \cup {None},
         Replies(m, st, topic)
  PROVE  /\ wire' = wire \ {m} /\ m \in Message
         /\ m.late => reply' = reply
         /\ ~m.late => \E r \in Reply :
              /\ reply' = [reply EXCEPT ![m.client] = r]
              /\ \/ r = [status |-> st, assigned |-> topic # None, topic |-> topic]
                 \/ r \in Odd(m.stream) /\ m.op = "start"
         /\ reply' \in [Client -> Reply \cup {None}]
<1>1. m \in Message /\ m.client \in Client /\ m.stream \in Stream /\ m.late \in BOOLEAN
  BY DEF Types, Message
<1>2. [status |-> st, assigned |-> topic # None, topic |-> topic] \in Reply
  BY DEF Reply
<1>3. Odd(m.stream) \subseteq Reply
  BY <1>1 DEF Odd, Reply, Active, Pending, Rejected
<1>4. ASSUME ~m.late
      PROVE  \E r \in Reply :
               /\ reply' = [reply EXCEPT ![m.client] = r]
               /\ \/ r = [status |-> st, assigned |-> topic # None, topic |-> topic]
                  \/ r \in Odd(m.stream) /\ m.op = "start"
  BY <1>2, <1>3, <1>4 DEF Replies
<1>5. m.late => reply' = reply
  BY DEF Replies
<1>6. reply' \in [Client -> Reply \cup {None}]
  BY <1>1, <1>4, <1>5 DEF Types
<1>7. wire' = wire \ {m}
  BY DEF Replies
<1> QED
  BY <1>1, <1>4, <1>5, <1>6, <1>7

\* A stream without some of its requesters.
LEMMA WithoutView ==
  ASSUME NEW stream \in {Idling} \cup Serving, NEW c \in Client
  PROVE  /\ Without(stream, {c}) \in {Idling} \cup Serving
         /\ Without(stream, {c}).by = stream.by \ {c}
         /\ stream.by \ {c} # {} =>
              /\ Without(stream, {c}).terms = stream.terms
              /\ Without(stream, {c}).health = stream.health
<1>1. Idling.by = {}
  BY DEF Idling, Engaged
<1>2. CASE stream.by \subseteq {c}
  BY <1>1, <1>2 DEF Without
<1>3. CASE ~(stream.by \subseteq {c})
  BY <1>1, <1>3 DEF Without, Serving
<1> QED
  BY <1>2, <1>3

\* What an answered start leaves: no call, and a record on its terms or a
\* failure.
LEMMA ObtainView ==
  ASSUME Types, Threads, NEW c \in Client, Obtain(c, TRUE), reply[c] # None,
         call[c].op = "start"
  PROVE  LET s == call[c].stream
         IN  /\ call[c] # None /\ call[c] \in Message /\ s \in Stream
             /\ \E r \in Record :
                  /\ records' = [records EXCEPT ![c][s] = r]
                  /\ r.terms = call[c].terms /\ r.told = reply[c].status
             /\ records' \in [Client -> [Stream -> Record \cup {None}]]
             /\ status' = [status EXCEPT ![c] = @ \cup {s}]
             /\ status' \in [Client -> SUBSET Stream]
<1> DEFINE s == call[c].stream
           r == [count |-> 1, terms |-> call[c].terms, told |-> reply[c].status,
                 stale |-> FALSE]
<1>1. call[c] # None /\ call[c] \in Message /\ s \in Stream /\ call[c].terms \in Terms
  BY DEF Types, Threads, Message
<1>2. reply[c].status \in Running
  BY OkReply DEF Obtain, Types
<1>3. 1 \in 1 .. MaxClaims
  BY ConstantsOK
<1>4. r \in Record /\ r.terms = call[c].terms /\ r.told = reply[c].status
  BY <1>1, <1>2, <1>3 DEF Record, Status, Health
<1>5. records' = [records EXCEPT ![c][s] = r]
  BY DEF Obtain
<1>6. status' = [status EXCEPT ![c] = @ \cup {s}]
  BY DEF Obtain
<1> HIDE DEF s, r
<1>7. records' \in [Client -> [Stream -> Record \cup {None}]]
  BY <1>1, <1>4, <1>5, RecordsView DEF s
<1>8. status' \in [Client -> SUBSET Stream]
  BY <1>1, <1>6 DEF Types, s
<1> QED
  BY <1>1, <1>4, <1>5, <1>6, <1>7, <1>8 DEF s

---------------------------------------------------------------------------
(* The invariant, action by action.                                        *)

IInv == Types /\ Threads /\ Marked /\ Served /\ Accounted

\* Records that stand for the same claims as before.
SameClaims ==
  /\ records' \in [Client -> [Stream -> Record \cup {None}]]
  /\ \A c \in Client, s \in Stream :
       /\ Holds(c, s)' <=> Holds(c, s)
       /\ Holds(c, s) => /\ records'[c][s].terms = records[c][s].terms
                         /\ records'[c][s].told = records[c][s].told

\* An edit of a record that keeps its terms and what was told.
LEMMA EditKeepsClaims ==
  ASSUME Types, NEW c \in Client, NEW s \in Stream, Holds(c, s), NEW r \in Record,
         r.terms = records[c][s].terms, r.told = records[c][s].told,
         records' = [records EXCEPT ![c][s] = r]
  PROVE  SameClaims
<1>1. /\ records' \in [Client -> [Stream -> Record \cup {None}]]
      /\ \A d \in Client, u \in Stream :
           records'[d][u] = IF d = c /\ u = s THEN r ELSE records[d][u]
  BY RecordsView
<1>2. r # None
  BY Distinct
<1> QED
  BY <1>1, <1>2 DEF SameClaims, Holds

\* What the engine serves and what its clients know stand together while the
\* claims stay what they are.
LEMMA ClaimsKept ==
  ASSUME Served, UNCHANGED streams,
         \A c \in Client, s \in Stream : Expects(c, s)' =>
           /\ Expects(c, s)
           /\ ClaimTerms(c, s)' = ClaimTerms(c, s) /\ ClaimTold(c, s)' = ClaimTold(c, s)
           /\ Holds(c, s) => Holds(c, s)'
           /\ (Unharmed(c, s)' => Unharmed(c, s)) /\ (Reached(c, s)' => Reached(c, s))
  PROVE  Served'
<1> SUFFICES ASSUME NEW c \in Client, NEW s \in Stream, Expects(c, s)'
             PROVE  /\ Unharmed(c, s)' => c \in streams[s].by /\ streams[s].terms = ClaimTerms(c, s)'
                    /\ Reached(c, s)' => Informed(c, s)'
  BY DEF Served
<1>1. Unharmed(c, s)' => c \in streams[s].by /\ streams[s].terms = ClaimTerms(c, s)'
  BY DEF Served
<1>2. Reached(c, s)' => Informed(c, s)'
  BY DEF Served, Informed
<1> QED
  BY <1>1, <1>2

\* Where only counts and what the components know change, nothing does.
LEMMA QuietStep ==
  ASSUME IInv, SameClaims,
         UNCHANGED <<present, status, call, reply, wire, streams, marks, failed>>
  PROVE  IInv'
<1> USE DEF IInv
<1>1. Types'
  BY DEF Types, SameClaims
<1>2. \A c \in Client, s \in Stream : Expects(c, s)' <=> Expects(c, s)
  BY DEF Expects, SameClaims, Holds
<1>3. Threads'
  BY DEF Threads, SameClaims, Types, Message
<1>4. Marked'
  BY <1>2 DEF Marked
<1>5. Served'
  <2>1. \A c \in Client, s \in Stream : Expects(c, s)' =>
          ClaimTerms(c, s)' = ClaimTerms(c, s) /\ ClaimTold(c, s)' = ClaimTold(c, s)
    BY DEF ClaimTerms, ClaimTold, SameClaims
  <2> QED
    BY <1>2, <2>1, ClaimsKept DEF SameClaims, Unharmed, Reached
<1>6. Accounted'
  BY DEF Accounted, Underway, SameClaims
<1> QED
  BY <1>1, <1>3, <1>4, <1>5, <1>6

LEMMA JoinStep ==
  ASSUME IInv, NEW c \in Client, NEW s \in Stream, NEW t \in Terms, Join(c, s, t)
  PROVE  IInv'
<1> DEFINE e == [records[c][s] EXCEPT !.count = @ + 1]
<1>1. records[c][s] \in Record /\ Holds(c, s) /\ records[c][s].count < MaxClaims
  BY DEF IInv, Types, Join, Holds
<1>2. records[c][s].count + 1 \in 1 .. MaxClaims
  BY <1>1, ConstantsOK DEF Record
<1>3. e \in Record /\ e.terms = records[c][s].terms /\ e.told = records[c][s].told
  BY <1>1, <1>2 DEF Record
<1>4. records' = [records EXCEPT ![c][s] = e]
  BY DEF Join
<1>5. SameClaims
  <2> HIDE DEF e
  <2> QED
    BY <1>1, <1>3, <1>4, EditKeepsClaims DEF IInv
<1> QED
  BY <1>5, QuietStep DEF Join

LEMMA NoticeStep ==
  ASSUME IInv, NEW c \in Client, NEW s \in Stream, Notice(c, s)
  PROVE  IInv'
<1> DEFINE e == [records[c][s] EXCEPT !.stale = TRUE]
<1>1. records[c][s] \in Record /\ Holds(c, s)
  BY DEF IInv, Types, Notice, Holds
<1>2. e \in Record /\ e.terms = records[c][s].terms /\ e.told = records[c][s].told
  BY <1>1 DEF Record
<1>3. records' = [records EXCEPT ![c][s] = e]
  BY DEF Notice
<1>4. SameClaims
  <2> HIDE DEF e
  <2> QED
    BY <1>1, <1>2, <1>3, EditKeepsClaims DEF IInv
<1> QED
  BY <1>4, QuietStep DEF Notice

\* Presence comes with an entry in the engine's list, and a session goes when
\* nothing is held.
LEMMA SessionStep ==
  ASSUME IInv, NEW c \in Client, Open(c) \/ Close(c)
  PROVE  IInv'
<1> USE DEF IInv, Open, Close
<1>1. UNCHANGED <<records, status, call, reply, wire, streams, marks, failed>>
  OBVIOUS
<1>2. Types'
  BY <1>1 DEF Types
<1>3. Threads'
  BY <1>1 DEF Threads, Idle, Holds
<1>4. Marked'
  BY <1>1 DEF Marked, Expects, Holds
<1>5. Served'
  BY <1>1 DEF Served, Expects, Holds, Unharmed, Reached, Informed, ClaimTerms, ClaimTold
<1>6. Accounted'
  BY <1>1 DEF Accounted, Underway, Holds, Threads, Types
<1> QED
  BY <1>2, <1>3, <1>4, <1>5, <1>6

\* The thread goes into StartFn's query.
LEMMA StartStep ==
  ASSUME IInv, NEW c \in Client, NEW s \in Stream, NEW t \in Terms, Start(c, s, t)
  PROVE  IInv'
<1> USE DEF IInv
<1>1. UNCHANGED <<present, records, status, streams, reply, marks, failed>>
      /\ c \in present /\ call[c] = None /\ reply[c] = None /\ ~Holds(c, s)
  BY DEF Start, Idle, Threads
<1>2. PICK m \in Message :
        /\ m.client = c /\ m.op = "start" /\ m.stream = s /\ m.terms = t /\ ~m.late
        /\ call' = [call EXCEPT ![c] = m] /\ wire' = wire \cup {m}
        /\ call' \in [Client -> Message \cup {None}]
        /\ wire' \subseteq Message
        /\ \A n \in wire' : n.op = "start" => n.terms \in Terms
        /\ \A d \in Client : call'[d] # None /\ call'[d].op = "start" =>
             call'[d].terms \in Terms
  BY AskTypes DEF Start
<1>3. m # None /\ \A d \in Client : call'[d] = IF d = c THEN m ELSE call[d]
  BY <1>2, Distinct DEF Types
<1>4. Types'
  BY <1>1, <1>2 DEF Types
<1>5. Threads'
  <2>1. \A n \in wire : n \in Message /\ n # None /\ n.client \in Client
    BY Distinct DEF Types, Message
  <2>2. \A n \in wire : ~n.late => n.client # c
    <3> SUFFICES ASSUME NEW n \in wire, ~n.late PROVE n.client # c
      OBVIOUS
    <3>1. call[n.client] = n
      BY DEF Threads
    <3> QED
      BY <1>1, <2>1, <3>1
  <2> QED
    BY <1>1, <1>2, <1>3, <2>1, <2>2 DEF Threads, Holds
<1>6. \A d \in Client, u \in Stream : Expects(d, u)' <=> Expects(d, u)
  BY <1>1, <1>3 DEF Expects, Holds
<1>7. Marked'
  BY <1>1, <1>6 DEF Marked
<1>8. Served'
  <2>1. \A d \in Client, u \in Stream : Expects(d, u) =>
          ClaimTerms(d, u)' = ClaimTerms(d, u) /\ ClaimTold(d, u)' = ClaimTold(d, u)
    BY <1>1, <1>3 DEF ClaimTerms, ClaimTold, Holds, Expects
  <2> QED
    BY <1>1, <1>6, <2>1, ClaimsKept DEF Unharmed, Reached, Holds
<1>9. Accounted'
  BY <1>1, <1>3 DEF Accounted, Underway, Holds
<1> QED
  BY <1>4, <1>5, <1>7, <1>8, <1>9

\* The last claim goes, and the thread into StopFn's query.
LEMMA RetireStep ==
  ASSUME IInv, NEW c \in Client, NEW s \in Stream, Idle(c), Retire(c, s),
         UNCHANGED <<present, reply, streams, failed>>
  PROVE  IInv'
<1> USE DEF IInv
<1>1. UNCHANGED <<present, status, streams, reply, failed>>
      /\ c \in present /\ call[c] = None /\ reply[c] = None
      /\ Holds(c, s) /\ marks' = Unmarked(c, s)
  BY DEF Retire, Erase, Idle, Threads
<1>2. PICK m \in Message :
        /\ m.client = c /\ m.op = "stop" /\ m.stream = s /\ ~m.late
        /\ call' = [call EXCEPT ![c] = m] /\ wire' = wire \cup {m}
        /\ call' \in [Client -> Message \cup {None}]
        /\ wire' \subseteq Message
        /\ \A n \in wire' : n.op = "start" => n.terms \in Terms
        /\ \A d \in Client : call'[d] # None /\ call'[d].op = "start" =>
             call'[d].terms \in Terms
  BY AskTypes DEF Retire
<1>3. m # None /\ \A d \in Client : call'[d] = IF d = c THEN m ELSE call[d]
  BY <1>2, Distinct DEF Types
<1>4. /\ records' \in [Client -> [Stream -> Record \cup {None}]]
      /\ \A d \in Client, u \in Stream :
           records'[d][u] = IF d = c /\ u = s THEN None ELSE records[d][u]
  BY RecordsView DEF Retire, Erase
<1>5. /\ marks' \subseteq Client \X Stream \X Mishap
      /\ \A d \in Client, u \in Stream, x \in Mishap :
           <<d, u, x>> \in marks' <=> <<d, u, x>> \in marks /\ (d # c \/ u # s)
  BY <1>1, MarksView
<1>6. Types'
  BY <1>1, <1>2, <1>4, <1>5 DEF Types
<1>7. Threads'
  <2>1. \A n \in wire : n \in Message /\ n # None /\ n.client \in Client
    BY Distinct DEF Types, Message
  <2>2. \A n \in wire : ~n.late => n.client # c
    <3> SUFFICES ASSUME NEW n \in wire, ~n.late PROVE n.client # c
      OBVIOUS
    <3>1. call[n.client] = n
      BY DEF Threads
    <3> QED
      BY <1>1, <2>1, <3>1
  <2> QED
    <3>1. \A d \in Client, u \in Stream : Holds(d, u)' <=> Holds(d, u) /\ (d # c \/ u # s)
      BY <1>4 DEF Holds
    <3>2. s \in status[c]
      BY <1>1 DEF Threads
    <3>3. \A d \in Client :
            /\ reply'[d] # None => call'[d] # None
            /\ d \notin present => call'[d] = None /\ \A u \in Stream : ~Holds(d, u)'
            /\ call'[d] # None =>
                 /\ call'[d].client = d /\ ~call'[d].late
                 /\ ~Holds(d, call[d].stream)'
                 /\ call'[d].op = "stop" => call'[d].stream \in status[d]
            /\ \A u \in Stream : Holds(d, u)' => u \in status[d]
      BY <1>1, <1>2, <1>3, <1>4, <3>1, <3>2 DEF Threads, Types, Message
    <3>4. \A n \in wire' :
            /\ ~n.late => call'[n.client] = n /\ reply'[n.client] = None
            /\ n.late /\ n.op = "start" => <<n.client, n.stream>> \in failed
      <4>1. \A n \in wire : /\ ~n.late => call'[n.client] = n
                            /\ n.late /\ n.op = "start" => <<n.client, n.stream>> \in failed
        BY <1>3, <2>1, <2>2 DEF Threads
      <4>2. \A n \in wire : ~n.late => reply'[n.client] = None
        BY <1>1 DEF Threads
      <4>3. ~m.late /\ call'[m.client] = m /\ reply'[m.client] = None
        BY <1>1, <1>2, <1>3
      <4> QED
        BY <1>2, <4>1, <4>2, <4>3
    <3> QED
      BY <1>1, <3>3, <3>4 DEF Threads, Holds
<1>8. \A d \in Client, u \in Stream :
        Expects(d, u)' <=> Expects(d, u) /\ (d # c \/ u # s)
  BY <1>1, <1>3, <1>4 DEF Expects, Holds
<1>9. Marked'
  BY <1>5, <1>8 DEF Marked
<1>10. Served'
  <2>1. \A d \in Client, u \in Stream : Expects(d, u)' =>
          ClaimTerms(d, u)' = ClaimTerms(d, u) /\ ClaimTold(d, u)' = ClaimTold(d, u)
    BY <1>1, <1>3, <1>4, <1>8 DEF ClaimTerms, ClaimTold, Holds, Expects
  <2>2. \A d \in Client, u \in Stream : d # c \/ u # s =>
          (Unharmed(d, u)' <=> Unharmed(d, u)) /\ (Reached(d, u)' <=> Reached(d, u))
    BY <1>5 DEF Unharmed, Reached, Mishap
  <2> QED
    BY <1>1, <1>4, <1>8, <2>1, <2>2, ClaimsKept DEF Holds
<1>11. Accounted'
  BY <1>1, <1>2, <1>3, <1>4 DEF Accounted, Underway, Holds
<1> QED
  BY <1>6, <1>7, <1>9, <1>10, <1>11

LEMMA ReleaseStep ==
  ASSUME IInv, NEW c \in Client, NEW s \in Stream, Release(c, s)
  PROVE  IInv'
<1>1. CASE Retire(c, s)
  BY <1>1, RetireStep DEF Release
<1>2. CASE /\ records[c][s].count > 1
           /\ records' = [records EXCEPT ![c][s].count = @ - 1]
           /\ UNCHANGED <<status, call, wire, marks>>
  <2> DEFINE e == [records[c][s] EXCEPT !.count = @ - 1]
  <2>1. records[c][s] \in Record /\ Holds(c, s)
    BY DEF IInv, Types, Release, Holds
  <2>2. records[c][s].count - 1 \in 1 .. MaxClaims
    BY <1>2, <2>1, ConstantsOK DEF Record
  <2>3. e \in Record /\ e.terms = records[c][s].terms /\ e.told = records[c][s].told
    BY <2>1, <2>2 DEF Record
  <2>4. records' = [records EXCEPT ![c][s] = e]
    BY <1>2
  <2>5. SameClaims
    <3> HIDE DEF e
    <3> QED
      BY <2>1, <2>3, <2>4, EditKeepsClaims DEF IInv
  <2> QED
    BY <1>2, <2>5, QuietStep DEF Release
<1> QED
  BY <1>1, <1>2 DEF Release

\* A request that is on its way without its client waiting any more.
LEMMA LateThreads ==
  ASSUME Types, Threads, NEW c \in Client, call[c] # None,
         wire' = {IF m = call[c] THEN Late(m) ELSE m : m \in wire}
  PROVE  \A n \in wire' :
           /\ n.client \in Client
           /\ ~n.late => n \in wire /\ n.client # c
           /\ n.late /\ n.op = "start" =>
                \/ <<n.client, n.stream>> \in failed
                \/ n.client = c /\ n.stream = call[c].stream
<1>1. ASSUME NEW n \in wire, n # call[c]
      PROVE  /\ n.client \in Client
             /\ ~n.late => n.client # c
             /\ n.late /\ n.op = "start" => <<n.client, n.stream>> \in failed
  BY <1>1 DEF Threads, Types, Message
<1>2. /\ Late(call[c]).late /\ Late(call[c]).client = c
      /\ Late(call[c]).stream = call[c].stream
  BY LateView DEF Types, Threads
<1> QED
  BY <1>1, <1>2, LateWire

\* StartFn fails, with or without an answer.
LEMMA StartFailsStep ==
  ASSUME IInv, NEW c \in Client, call[c] # None, StartFails(c),
         reply' = [reply EXCEPT ![c] = None],
         wire' = {IF m = call[c] THEN Late(m) ELSE m : m \in wire}
  PROVE  IInv'
<1> USE DEF IInv
<1> DEFINE s == call[c].stream
<1>1. UNCHANGED <<present, records, status, streams>>
      /\ failed' = failed \cup {<<c, s>>} /\ marks' = Unmarked(c, s)
      /\ call' = [call EXCEPT ![c] = None] /\ call[c].op = "start"
  BY DEF StartFails
<1>2. s \in Stream /\ ~Holds(c, s)
  BY DEF Types, Message, Threads
<1>3. /\ \A d \in Client : call'[d] = IF d = c THEN None ELSE call[d]
      /\ \A d \in Client : reply'[d] = IF d = c THEN None ELSE reply[d]
      /\ reply' \in [Client -> Reply \cup {None}]
  BY <1>1 DEF Types
<1>4. /\ marks' \subseteq Client \X Stream \X Mishap
      /\ \A d \in Client, u \in Stream, x \in Mishap :
           <<d, u, x>> \in marks' <=> <<d, u, x>> \in marks /\ (d # c \/ u # s)
  BY <1>1, <1>2, MarksView
<1>5. Types'
  <2>1. failed' \subseteq Client \X Stream
    BY <1>1, <1>2 DEF Types
  <2>2. /\ wire' \subseteq Message
        /\ \A n \in wire' : n.op = "start" => n.terms \in Terms
    BY LateWire
  <2>3. /\ call' \in [Client -> Message \cup {None}]
        /\ \A d \in Client : call'[d] # None /\ call'[d].op = "start" =>
             call'[d].terms \in Terms
    BY <1>1, ReturnTypes
  <2> QED
    BY <1>1, <1>3, <1>4, <2>1, <2>2, <2>3 DEF Types
<1> HIDE DEF s
<1>6. Threads'
  <2>1. \A n \in wire' :
          /\ n.client \in Client
          /\ ~n.late => n \in wire /\ n.client # c
          /\ n.late /\ n.op = "start" =>
               \/ <<n.client, n.stream>> \in failed
               \/ n.client = c /\ n.stream = s
    BY LateThreads DEF s
  <2> QED
    BY <1>1, <1>3, <2>1 DEF Threads, Holds
<1>7. \A d \in Client, u \in Stream :
        Expects(d, u)' <=> Expects(d, u) /\ (d # c \/ u # s)
  BY <1>1, <1>2, <1>3 DEF Expects, Holds, s
<1>8. Marked'
  BY <1>4, <1>7 DEF Marked
<1>9. Served'
  <2>1. \A d \in Client, u \in Stream : Expects(d, u)' =>
          ClaimTerms(d, u)' = ClaimTerms(d, u) /\ ClaimTold(d, u)' = ClaimTold(d, u)
    BY <1>1, <1>3 DEF ClaimTerms, ClaimTold, Holds, Expects
  <2>2. \A d \in Client, u \in Stream : d # c \/ u # s =>
          (Unharmed(d, u)' <=> Unharmed(d, u)) /\ (Reached(d, u)' <=> Reached(d, u))
    BY <1>4 DEF Unharmed, Reached, Mishap
  <2> QED
    BY <1>1, <1>7, <2>1, <2>2, ClaimsKept DEF Holds
<1>10. Accounted'
  BY <1>1, <1>3 DEF Accounted, Underway, Holds, s
<1> QED
  BY <1>5, <1>6, <1>8, <1>9, <1>10

\* The answer to a start becomes a record, whose status is subscribed to.
LEMMA ObtainStep ==
  ASSUME IInv, NEW c \in Client, reply[c] # None, call[c].op = "start",
         reply' = [reply EXCEPT ![c] = None], UNCHANGED wire, Obtain(c, TRUE)
  PROVE  IInv'
<1> USE DEF IInv
<1> DEFINE s == call[c].stream
<1>1. UNCHANGED <<present, streams, marks, failed>>
      /\ call' = [call EXCEPT ![c] = None] /\ from_reply(reply[c]) = "Ok"
  BY DEF Obtain
<1>2. PICK r \in Record :
        /\ records' = [records EXCEPT ![c][s] = r]
        /\ r.terms = call[c].terms /\ r.told = reply[c].status
  BY ObtainView
<1>3. /\ call[c] # None /\ call[c] \in Message /\ s \in Stream /\ c \in present
      /\ records' \in [Client -> [Stream -> Record \cup {None}]]
      /\ status' = [status EXCEPT ![c] = @ \cup {s}]
      /\ status' \in [Client -> SUBSET Stream]
  BY ObtainView DEF Threads
<1>4. /\ \A d \in Client : call'[d] = IF d = c THEN None ELSE call[d]
      /\ \A d \in Client : reply'[d] = IF d = c THEN None ELSE reply[d]
      /\ reply' \in [Client -> Reply \cup {None}]
  BY <1>1 DEF Types
<1>5. \A d \in Client : status'[d] = IF d = c THEN status[c] \cup {s} ELSE status[d]
  BY <1>3 DEF Types
<1>6. ~Holds(c, s) /\ Expects(c, s)
  BY <1>1, <1>3 DEF Threads, Expects
<1> HIDE DEF s
<1>7. /\ \A d \in Client, u \in Stream :
           records'[d][u] = IF d = c /\ u = s THEN r ELSE records[d][u]
      /\ r # None
  BY <1>2, <1>3, RecordsView, Distinct
<1>8. Types'
  BY <1>1, <1>3, <1>4, ReturnTypes DEF Types
<1>9. \A d \in Client, u \in Stream :
        Holds(d, u)' <=> Holds(d, u) \/ (d = c /\ u = s)
  BY <1>7 DEF Holds
<1>10. Threads'
  <2>1. \A n \in wire : n \in Message /\ n.client \in Client
    BY DEF Types, Message
  <2>2. \A n \in wire : ~n.late => n.client # c
    <3> SUFFICES ASSUME NEW n \in wire, ~n.late PROVE n.client # c
      OBVIOUS
    <3>1. reply[n.client] = None
      BY DEF Threads
    <3> QED
      BY <3>1
  <2>3. \A d \in Client :
          /\ reply'[d] # None => call'[d] # None
          /\ d \notin present => call'[d] = None /\ \A u \in Stream : ~Holds(d, u)'
          /\ call'[d] # None =>
               /\ call'[d].client = d /\ ~call'[d].late
               /\ ~Holds(d, call[d].stream)'
               /\ call'[d].op = "stop" => call'[d].stream \in status'[d]
          /\ \A u \in Stream : Holds(d, u)' => u \in status'[d]
    BY <1>3, <1>4, <1>5, <1>9 DEF Threads, Types, Message
  <2>4. \A n \in wire :
          /\ ~n.late => call'[n.client] = n /\ reply'[n.client] = None
          /\ n.late /\ n.op = "start" => <<n.client, n.stream>> \in failed
    BY <1>4, <2>1, <2>2 DEF Threads
  <2> QED
    BY <1>1, <1>4, <2>3, <2>4 DEF Threads, Holds
<1>11. \A d \in Client, u \in Stream : Expects(d, u)' <=> Expects(d, u)
  BY <1>4, <1>6, <1>9 DEF Expects, s
<1>12. Marked'
  BY <1>1, <1>11 DEF Marked
<1>13. Served'
  <2>1. \A d \in Client, u \in Stream : Expects(d, u) =>
          ClaimTerms(d, u)' = ClaimTerms(d, u) /\ ClaimTold(d, u)' = ClaimTold(d, u)
    BY <1>2, <1>4, <1>6, <1>7, <1>9 DEF ClaimTerms, ClaimTold, Expects
  <2> QED
    BY <1>1, <1>9, <1>11, <2>1, ClaimsKept DEF Unharmed, Reached
<1>14. Accounted'
  BY <1>1, <1>4, <1>9 DEF Accounted, Underway, s
<1> QED
  BY <1>8, <1>10, <1>12, <1>13, <1>14

\* StopFn returns, and the subscriber goes.  Either the stop was answered, or
\* it may not have worked.
LEMMA StopReturnsStep ==
  ASSUME IInv, NEW c \in Client, call[c] # None, StopReturns(c),
         reply' = [reply EXCEPT ![c] = None],
         wire' = {IF m = call[c] THEN Late(m) ELSE m : m \in wire},
         \/ reply[c] # None /\ failed' = failed
         \/ failed' = failed \cup {<<c, call[c].stream>>}
  PROVE  IInv'
<1> USE DEF IInv
<1> DEFINE s == call[c].stream
<1>1. UNCHANGED <<present, records, streams, marks>>
      /\ call' = [call EXCEPT ![c] = None] /\ call[c].op = "stop"
      /\ status' = [status EXCEPT ![c] = @ \ {s}]
  BY DEF StopReturns
<1>2. s \in Stream /\ ~Holds(c, s)
  BY DEF Types, Message, Threads
<1>3. /\ \A d \in Client : call'[d] = IF d = c THEN None ELSE call[d]
      /\ \A d \in Client : reply'[d] = IF d = c THEN None ELSE reply[d]
      /\ \A d \in Client : status'[d] = IF d = c THEN status[c] \ {s} ELSE status[d]
      /\ reply' \in [Client -> Reply \cup {None}]
      /\ status' \in [Client -> SUBSET Stream]
  BY <1>1 DEF Types
<1>4. failed \subseteq failed' /\ failed' \subseteq Client \X Stream
  BY <1>2 DEF Types
<1>5. Types'
  <2>1. /\ wire' \subseteq Message
        /\ \A n \in wire' : n.op = "start" => n.terms \in Terms
    BY LateWire
  <2>2. /\ call' \in [Client -> Message \cup {None}]
        /\ \A d \in Client : call'[d] # None /\ call'[d].op = "start" =>
             call'[d].terms \in Terms
    BY <1>1, ReturnTypes
  <2> QED
    BY <1>1, <1>3, <1>4, <2>1, <2>2 DEF Types
<1> HIDE DEF s
<1>6. Threads'
  <2>1. \A n \in wire' : ~n.late => n \in wire /\ n.client # c /\ n.client \in Client
    BY LateThreads
  <2>2. \A n \in wire' : n.late /\ n.op = "start" => <<n.client, n.stream>> \in failed'
    <3> SUFFICES ASSUME NEW n \in wire', n.late, n.op = "start"
                 PROVE  <<n.client, n.stream>> \in failed'
      OBVIOUS
    <3>1. CASE n \in wire
      BY <1>4, <3>1 DEF Threads
    <3>2. CASE n = Late(call[c])
      BY <1>1, <3>2, LateView DEF Types
    <3> QED
      BY <3>1, <3>2, LateWire
  <2>3. \A n \in wire' : ~n.late => call'[n.client] = n /\ reply'[n.client] = None
    BY <1>3, <2>1 DEF Threads
  <2>4. \A d \in Client :
          /\ reply'[d] # None => call'[d] # None
          /\ d \notin present => call'[d] = None /\ \A u \in Stream : ~Holds(d, u)
          /\ call'[d] # None =>
               /\ call'[d].client = d /\ ~call'[d].late
               /\ ~Holds(d, call'[d].stream)
               /\ call'[d].op = "stop" => call'[d].stream \in status'[d]
          /\ \A u \in Stream : Holds(d, u) => u \in status'[d]
    BY <1>2, <1>3 DEF Threads
  <2> QED
    BY <1>1, <2>2, <2>3, <2>4 DEF Threads, Holds
<1>7. \A d \in Client, u \in Stream : Expects(d, u)' <=> Expects(d, u)
  BY <1>1, <1>3 DEF Expects, Holds
<1>8. Marked'
  BY <1>1, <1>7 DEF Marked
<1>9. Served'
  <2>1. \A d \in Client, u \in Stream : Expects(d, u)' =>
          ClaimTerms(d, u)' = ClaimTerms(d, u) /\ ClaimTold(d, u)' = ClaimTold(d, u)
    BY <1>1, <1>3 DEF ClaimTerms, ClaimTold, Holds, Expects
  <2> QED
    BY <1>1, <1>7, <2>1, ClaimsKept DEF Unharmed, Reached, Holds
<1>10. Accounted'
  <2>1. \A d \in Client, u \in Stream :
          Underway(d, u) => Underway(d, u)' \/ <<d, u>> \in failed'
    BY <1>1, <1>3 DEF Underway, s
  <2> QED
    BY <1>1, <1>4, <2>1 DEF Accounted, Holds
<1> QED
  BY <1>5, <1>6, <1>8, <1>9, <1>10

\* Where the answer has come, the request is on its way no more.
LEMMA AnsweredWire ==
  ASSUME IInv, NEW c \in Client, reply[c] # None
  PROVE  /\ call[c] # None
         /\ wire = {IF m = call[c] THEN Late(m) ELSE m : m \in wire}
<1>1. call[c] # None /\ call[c].client = c /\ ~call[c].late
  BY DEF IInv, Threads
<1>2. call[c] \notin wire
  BY <1>1 DEF IInv, Threads
<1> QED
  BY <1>1, <1>2, SMTT(20)

LEMMA ReturnStep ==
  ASSUME IInv, NEW c \in Client, StartAnswered(c) \/ StopAnswered(c) \/ GiveUp(c)
  PROVE  IInv'
<1>1. CASE StartAnswered(c)
  BY <1>1, AnsweredWire, ObtainStep, StartFailsStep DEF StartAnswered
<1>2. CASE StopAnswered(c)
  BY <1>2, AnsweredWire, StopReturnsStep DEF StopAnswered
<1>3. CASE GiveUp(c)
  BY <1>3, StartFailsStep, StopReturnsStep DEF GiveUp
<1> QED
  BY <1>1, <1>2, <1>3

\* The process dies: nothing of it is left but what it sent, and its place in
\* the engine's list until the sweep.
LEMMA CrashStep ==
  ASSUME IInv, NEW c \in Client, Crash(c)
  PROVE  IInv'
<1> USE DEF IInv
<1> DEFINE lost == {c} \X {s \in Stream :
             Holds(c, s) \/ (call[c] # None /\ call[c].stream = s)}
<1>1. /\ c \in present /\ present' = present \ {c} /\ UNCHANGED <<streams>>
      /\ call' = [call EXCEPT ![c] = None] /\ reply' = [reply EXCEPT ![c] = None]
      /\ wire' = {IF m = call[c] THEN Late(m) ELSE m : m \in wire}
      /\ failed' = failed \cup lost
  BY DEF Crash
<1>2. /\ \A d \in Client : call'[d] = IF d = c THEN None ELSE call[d]
      /\ \A d \in Client : reply'[d] = IF d = c THEN None ELSE reply[d]
      /\ reply' \in [Client -> Reply \cup {None}]
  BY <1>1 DEF Types
<1>3. /\ \A d \in Client : d # c => records'[d] = records[d] /\ status'[d] = status[d]
      /\ \A s \in Stream : records'[c][s] = None
      /\ status'[c] = {}
      /\ records' \in [Client -> [Stream -> Record \cup {None}]]
      /\ status' \in [Client -> SUBSET Stream]
  BY DEF Types, Crash
<1>4. /\ marks' \subseteq Client \X Stream \X Mishap
      /\ \A d \in Client, s \in Stream, x \in Mishap :
           <<d, s, x>> \in marks' <=> <<d, s, x>> \in marks /\ d # c
  BY DEF Types, Crash
<1>5. /\ lost \subseteq Client \X Stream
      /\ call[c] # None => <<c, call[c].stream>> \in lost
      /\ \A s \in Stream : Holds(c, s) => <<c, s>> \in lost
  BY DEF Types, Message
<1> HIDE DEF lost
<1>6. /\ wire' \subseteq Message
      /\ \A n \in wire' : n.op = "start" => n.terms \in Terms
      /\ \A n \in wire' :
           /\ n.client \in Client
           /\ ~n.late => n \in wire /\ n.client # c
           /\ n.late /\ n.op = "start" => <<n.client, n.stream>> \in failed'
  <2>1. CASE call[c] # None
    <3>1. \A n \in wire' :
            /\ n.client \in Client
            /\ ~n.late => n \in wire /\ n.client # c
            /\ n.late /\ n.op = "start" =>
                 \/ <<n.client, n.stream>> \in failed
                 \/ n.client = c /\ n.stream = call[c].stream
      BY <1>1, <2>1, LateThreads
    <3> QED
      BY <1>1, <1>5, <2>1, <3>1, LateWire
  <2>2. CASE call[c] = None
    <3>1. \A n \in wire : n \in Message /\ n # None /\ n.client \in Client
      BY Distinct DEF Types, Message
    <3>2. wire' = wire
      BY <1>1, <2>2, <3>1
    <3>3. ASSUME NEW n \in wire, ~n.late PROVE n.client # c
      <4>1. call[n.client] = n
        BY <3>3 DEF Threads
      <4> QED
        BY <2>2, <3>1, <4>1
    <3>4. \A n \in wire : n.late /\ n.op = "start" => <<n.client, n.stream>> \in failed
      BY DEF Threads
    <3> QED
      BY <1>1, <3>1, <3>2, <3>3, <3>4 DEF Types
  <2> QED
    BY <2>1, <2>2
<1>7. Types'
  BY <1>1, <1>2, <1>3, <1>4, <1>5, <1>6, ReturnTypes DEF Types
<1>8. \A d \in Client, s \in Stream : Holds(d, s)' <=> Holds(d, s) /\ d # c
  BY <1>3 DEF Holds
<1>9. Threads'
  <2>1. \A n \in wire' : ~n.late => call'[n.client] = n /\ reply'[n.client] = None
    BY <1>2, <1>6 DEF Threads
  <2>2. \A d \in Client :
          /\ reply'[d] # None => call'[d] # None
          /\ d \notin present' => call'[d] = None /\ \A s \in Stream : ~Holds(d, s)'
          /\ call'[d] # None =>
               /\ call'[d].client = d /\ ~call'[d].late
               /\ ~Holds(d, call[d].stream)'
               /\ call'[d].op = "stop" => call'[d].stream \in status'[d]
          /\ \A s \in Stream : Holds(d, s)' => s \in status'[d]
    BY <1>1, <1>2, <1>3, <1>8 DEF Threads, Types, Message
  <2> QED
    BY <1>1, <1>6, <2>1, <2>2 DEF Threads
<1>10. \A d \in Client, s \in Stream : Expects(d, s)' <=> Expects(d, s) /\ d # c
  BY <1>2, <1>8 DEF Expects
<1>11. Marked'
  BY <1>4, <1>10 DEF Marked
<1>12. Served'
  <2>1. \A d \in Client, s \in Stream : Expects(d, s)' =>
          ClaimTerms(d, s)' = ClaimTerms(d, s) /\ ClaimTold(d, s)' = ClaimTold(d, s)
    BY <1>2, <1>3, <1>8, <1>10 DEF ClaimTerms, ClaimTold
  <2>2. \A d \in Client, s \in Stream : d # c =>
          (Unharmed(d, s)' <=> Unharmed(d, s)) /\ (Reached(d, s)' <=> Reached(d, s))
    BY <1>4 DEF Unharmed, Reached, Mishap
  <2> QED
    BY <1>1, <1>8, <1>10, <2>1, <2>2, ClaimsKept
<1>13. Accounted'
  BY <1>1, <1>2, <1>5, <1>8 DEF Accounted, Underway, Threads
<1> QED
  BY <1>7, <1>9, <1>11, <1>12, <1>13

\* The network loses a request.
LEMMA LoseStep ==
  ASSUME IInv, NEW m \in wire, Lose(m)
  PROVE  IInv'
<1> USE DEF IInv, clientside
<1>1. wire' \subseteq wire
      /\ UNCHANGED <<present, records, status, call, streams, reply, marks, failed>>
  BY DEF Lose
<1>2. Types'
  BY <1>1 DEF Types
<1>3. Threads'
  BY <1>1 DEF Threads, Holds
<1>4. Marked'
  BY <1>1 DEF Marked, Expects, Holds
<1>5. Served'
  BY <1>1 DEF Served, Expects, Holds, Unharmed, Reached, Informed, ClaimTerms, ClaimTold
<1>6. Accounted'
  BY <1>1 DEF Accounted, Underway, Holds
<1> QED
  BY <1>2, <1>3, <1>4, <1>5, <1>6

\* Records in which nothing but what the client was told is new.
Republished ==
  /\ records' \in [Client -> [Stream -> Record \cup {None}]]
  /\ \A c \in Client, s \in Stream :
       /\ Holds(c, s)' <=> Holds(c, s)
       /\ Holds(c, s) => records'[c][s].terms = records[c][s].terms

\* The engine announces what its streams come to: every holder of one whose
\* status changes hears of it, and whoever waits for one misses it.
LEMMA AnnounceView ==
  ASSUME Types, Threads, NEW next \in [Stream -> {Idling} \cup Serving],
         NEW befallen \in SUBSET (Client \X Stream \X Mishap), Announce(next, befallen)
  PROVE  /\ streams' = next /\ Republished
         /\ \A c \in Client, s \in Stream : Holds(c, s) =>
              records'[c][s].told = IF next[s].health # streams[s].health
                                    THEN next[s].health ELSE records[c][s].told
         /\ marks' \subseteq Client \X Stream \X Mishap
         /\ \A c \in Client, s \in Stream, x \in Mishap :
              LET changed == x = "missed" /\ next[s].health # streams[s].health
              IN  <<c, s, x>> \in marks' <=>
                    \/ <<c, s, x>> \in befallen
                    \/ changed /\ Expects(c, s) /\ ~Holds(c, s)
                    \/ <<c, s, x>> \in marks /\ ~(changed /\ Holds(c, s))
<1> DEFINE told == Client \X {s \in Stream : next[s].health # streams[s].health}
           hearing == {p \in told : Hears(p[1], p[2])}
           deaf == {p \in told : Expects(p[1], p[2]) /\ ~Holds(p[1], p[2])}
           e(c, s) == [records[c][s] EXCEPT !.told = next[s].health]
<1>1. /\ streams' = next
      /\ records' = [c \in Client |-> [s \in Stream |->
           IF <<c, s>> \in hearing THEN e(c, s) ELSE records[c][s]]]
      /\ marks' = (marks \ Mark(hearing, "missed")) \cup Mark(deaf, "missed") \cup befallen
  BY DEF Announce
<1>2. /\ hearing \in SUBSET (Client \X Stream) /\ deaf \in SUBSET (Client \X Stream)
      /\ \A c \in Client, s \in Stream :
           /\ <<c, s>> \in hearing <=> next[s].health # streams[s].health /\ Holds(c, s)
           /\ <<c, s>> \in deaf <=>
                next[s].health # streams[s].health /\ Expects(c, s) /\ ~Holds(c, s)
  <2>1. \A c \in Client, s \in Stream : Hears(c, s) <=> Holds(c, s)
    BY DEF Hears, Threads
  <2> QED
    BY <2>1
<1>3. ASSUME NEW c \in Client, NEW s \in Stream, Holds(c, s)
      PROVE  /\ records[c][s] \in Record /\ e(c, s) \in Record
             /\ e(c, s).terms = records[c][s].terms /\ e(c, s).told = next[s].health
  <2>1. records[c][s] \in Record
    BY <1>3 DEF Types, Holds
  <2>2. next[s].health \in Status
    <3>1. Idling.health = Inactive /\ \A stream \in Serving : stream.health \in Health
      BY DEF Idling, Engaged, Serving
    <3>2. next[s] \in {Idling} \cup Serving
      OBVIOUS
    <3> QED
      BY <3>1, <3>2 DEF Status
  <2> QED
    BY <2>1, <2>2 DEF Record
<1> HIDE DEF hearing, deaf, told, e
<1>4. \A c \in Client, s \in Stream :
        records'[c][s] = IF <<c, s>> \in hearing THEN e(c, s) ELSE records[c][s]
  BY <1>1
<1>5. Republished
  <2>1. records' = [c \in Client |-> [s \in Stream |-> records'[c][s]]]
    BY <1>1, <1>4
  <2>2. \A c \in Client, s \in Stream :
          /\ records'[c][s] \in Record \cup {None}
          /\ Holds(c, s)' <=> Holds(c, s)
          /\ Holds(c, s) => records'[c][s].terms = records[c][s].terms
    <3> SUFFICES ASSUME NEW c \in Client, NEW s \in Stream
                 PROVE  /\ records'[c][s] \in Record \cup {None}
                        /\ Holds(c, s)' <=> Holds(c, s)
                        /\ Holds(c, s) => records'[c][s].terms = records[c][s].terms
      OBVIOUS
    <3>1. CASE <<c, s>> \in hearing
      BY <1>2, <1>3, <1>4, <3>1, Distinct DEF Holds
    <3>2. CASE <<c, s>> \notin hearing
      BY <1>4, <3>2 DEF Types, Holds
    <3> QED
      BY <3>1, <3>2
  <2> QED
    BY <2>1, <2>2 DEF Republished
<1>6. ASSUME NEW c \in Client, NEW s \in Stream, Holds(c, s)
      PROVE  records'[c][s].told = IF next[s].health # streams[s].health
                                   THEN next[s].health ELSE records[c][s].told
  <2>1. CASE next[s].health # streams[s].health
    <3>1. records'[c][s] = e(c, s)
      BY <1>2, <1>4, <1>6, <2>1
    <3>2. e(c, s).told = next[s].health
      BY <1>3, <1>6
    <3> QED
      BY <2>1, <3>1, <3>2
  <2>2. CASE next[s].health = streams[s].health
    BY <1>2, <1>4, <1>6, <2>2
  <2> QED
    BY <2>1, <2>2
<1>7. /\ Mark(hearing, "missed") \subseteq Client \X Stream \X Mishap
      /\ Mark(deaf, "missed") \subseteq Client \X Stream \X Mishap
      /\ \A c \in Client, s \in Stream, x \in Mishap :
           /\ <<c, s, x>> \in Mark(hearing, "missed") <=> <<c, s>> \in hearing /\ x = "missed"
           /\ <<c, s, x>> \in Mark(deaf, "missed") <=> <<c, s>> \in deaf /\ x = "missed"
  <2>1. "missed" \in Mishap
    BY DEF Mishap
  <2> QED
    BY <1>2, <2>1, MarkView
<1>8. marks' \subseteq Client \X Stream \X Mishap
  BY <1>1, <1>7 DEF Types
<1>9. ASSUME NEW c \in Client, NEW s \in Stream, NEW x \in Mishap
      PROVE  <<c, s, x>> \in marks' <=>
               \/ <<c, s, x>> \in befallen
               \/ x = "missed" /\ next[s].health # streams[s].health
                    /\ Expects(c, s) /\ ~Holds(c, s)
               \/ /\ <<c, s, x>> \in marks
                  /\ ~(x = "missed" /\ next[s].health # streams[s].health /\ Holds(c, s))
  <2>1. <<c, s, x>> \in marks' <=>
          \/ <<c, s, x>> \in marks /\ <<c, s, x>> \notin Mark(hearing, "missed")
          \/ <<c, s, x>> \in Mark(deaf, "missed") \/ <<c, s, x>> \in befallen
    BY <1>1
  <2> QED
    BY <1>2, <1>7, <2>1
<1> QED
  BY <1>1, <1>5, <1>6, <1>8, <1>9

\* The refusal of a start is heard by whoever holds the stream.
LEMMA RefusalView ==
  ASSUME Types, Threads, NEW s \in Stream, NEW st \in Status, AnnounceRefusal(s, st)
  PROVE  /\ Republished /\ UNCHANGED <<streams, marks>>
         /\ \A c \in Client, u \in Stream : Holds(c, u) =>
              records'[c][u].told = IF u = s THEN st ELSE records[c][u].told
<1> DEFINE e(c) == [records[c][s] EXCEPT !.told = st]
<1>1. \A c \in Client : Hears(c, s) <=> Holds(c, s)
  BY DEF Hears, Threads
<1>2. /\ records' = [c \in Client |->
           IF Hears(c, s) THEN [records[c] EXCEPT ![s].told = st] ELSE records[c]]
      /\ UNCHANGED <<streams, marks>>
  BY DEF AnnounceRefusal
<1>3. ASSUME NEW c \in Client, Holds(c, s)
      PROVE  e(c) \in Record /\ e(c).terms = records[c][s].terms /\ e(c).told = st
  <2>1. records[c][s] \in Record
    BY <1>3 DEF Types, Holds
  <2> QED
    BY <2>1 DEF Record
<1>4. ASSUME NEW c \in Client, Holds(c, s)
      PROVE  /\ records'[c] \in [Stream -> Record \cup {None}]
             /\ \A u \in Stream : records'[c][u] = IF u = s THEN e(c) ELSE records[c][u]
  <2>1. records'[c] = [records[c] EXCEPT ![s] = e(c)]
    BY <1>1, <1>2, <1>4
  <2>2. records[c] \in [Stream -> Record \cup {None}] /\ e(c) \in Record
    BY <1>3, <1>4 DEF Types
  <2> HIDE DEF e
  <2> QED
    BY <2>1, <2>2
<1>5. ASSUME NEW c \in Client, ~Holds(c, s)
      PROVE  records'[c] = records[c] /\ records'[c] \in [Stream -> Record \cup {None}]
  BY <1>1, <1>2, <1>5 DEF Types
<1> HIDE DEF e
<1>6. Republished
  <2>1. records' = [c \in Client |-> records'[c]]
    BY <1>2
  <2>2. \A c \in Client : records'[c] \in [Stream -> Record \cup {None}]
    BY <1>4, <1>5
  <2>3. \A c \in Client, u \in Stream :
          /\ Holds(c, u)' <=> Holds(c, u)
          /\ Holds(c, u) => records'[c][u].terms = records[c][u].terms
    BY <1>3, <1>4, <1>5, Distinct DEF Holds
  <2> QED
    BY <2>1, <2>2, <2>3 DEF Republished
<1>7. \A c \in Client, u \in Stream : Holds(c, u) =>
        records'[c][u].told = IF u = s THEN st ELSE records[c][u].told
  BY <1>3, <1>4, <1>5
<1> QED
  BY <1>2, <1>6, <1>7

\* A claim stays informed by what is announced, if it was.
LEMMA AnnounceInforms ==
  ASSUME IInv, NEW next \in [Stream -> {Idling} \cup Serving],
         NEW befallen \in SUBSET (Client \X Stream \X Mishap), Announce(next, befallen),
         NEW c \in Client, NEW s \in Stream, Expects(c, s), Reached(c, s)',
         ~Holds(c, s) => ClaimTold(c, s)' = ClaimTold(c, s),
         next[s].health = streams[s].health /\ streams[s].by = {} => next[s].by = {}
  PROVE  Informed(c, s)'
<1> USE DEF IInv
<1>1. /\ streams' = next
      /\ Holds(c, s)' <=> Holds(c, s)
      /\ Holds(c, s) => records'[c][s].told = IF next[s].health # streams[s].health
                                              THEN next[s].health ELSE records[c][s].told
  BY AnnounceView DEF Republished
<1>2. \A x \in Mishap :
        LET changed == x = "missed" /\ next[s].health # streams[s].health
        IN  <<c, s, x>> \in marks' <=>
              \/ <<c, s, x>> \in befallen
              \/ changed /\ Expects(c, s) /\ ~Holds(c, s)
              \/ <<c, s, x>> \in marks /\ ~(changed /\ Holds(c, s))
  BY AnnounceView
<1>3. CASE next[s].health # streams[s].health
  <2>1. Holds(c, s)
    BY <1>2, <1>3 DEF Reached, Mishap
  <2> QED
    BY <1>1, <1>3, <2>1 DEF Informed, ClaimTold
<1>4. CASE next[s].health = streams[s].health
  <2>1. Reached(c, s)
    BY <1>2, <1>4 DEF Reached, Mishap
  <2>2. Informed(c, s)
    BY <2>1 DEF Served
  <2>3. ClaimTold(c, s)' = ClaimTold(c, s)
    BY <1>1, <1>4 DEF ClaimTold
  <2> QED
    BY <1>1, <1>4, <2>2, <2>3 DEF Informed
<1> QED
  BY <1>3, <1>4

\* What the engine publishes leaves the threads alone.
LEMMA RepublishedThreads ==
  ASSUME IInv, Republished, UNCHANGED <<present, status, call, reply, wire>>,
         \A n \in wire : n.late /\ n.op = "start" => <<n.client, n.stream>> \in failed'
  PROVE  Threads'
<1> USE DEF IInv
<1>1. \A c \in Client : call[c] # None => call[c].stream \in Stream
  BY DEF Types, Message
<1>2. \A c \in Client :
        /\ c \notin present => \A s \in Stream : ~Holds(c, s)'
        /\ call[c] # None => (~Holds(c, call[c].stream))'
        /\ \A s \in Stream : Holds(c, s)' => s \in status[c]
  BY <1>1 DEF Threads, Republished
<1> QED
  BY <1>2 DEF Threads

\* It leaves the claims alone as well, but for what holders are told.
LEMMA RepublishedClaims ==
  ASSUME Republished, UNCHANGED <<call, reply>>, NEW c \in Client, NEW s \in Stream
  PROVE  /\ Expects(c, s)' <=> Expects(c, s)
         /\ ClaimTerms(c, s)' = ClaimTerms(c, s)
         /\ ~Holds(c, s) => ClaimTold(c, s)' = ClaimTold(c, s)
BY DEF Republished, Expects, ClaimTerms, ClaimTold

\* A client that is gone is swept.
LEMMA SweepStep ==
  ASSUME IInv, NEW c \in Client, Sweep(c)
  PROVE  IInv'
<1> USE DEF IInv
<1> DEFINE next == [s \in Stream |-> Without(streams[s], {c})]
<1>1. /\ c \notin present /\ Announce(next, {})
      /\ UNCHANGED <<present, status, call, reply, wire>>
      /\ failed' = {p \in failed : p[1] # c \/ ~Settled(c, p[2])}
  BY DEF Sweep
<1>2. /\ next \in [Stream -> {Idling} \cup Serving]
      /\ \A s \in Stream :
           /\ next[s].by = streams[s].by \ {c}
           /\ streams[s].by \ {c} # {} => next[s].terms = streams[s].terms
  BY WithoutView DEF Types
<1> HIDE DEF next
<1>3. /\ streams' = next /\ Republished
      /\ marks' \subseteq Client \X Stream \X Mishap
      /\ \A d \in Client, s \in Stream, x \in Mishap :
           LET changed == x = "missed" /\ next[s].health # streams[s].health
           IN  <<d, s, x>> \in marks' <=>
                 \/ <<d, s, x>> \in {}
                 \/ changed /\ Expects(d, s) /\ ~Holds(d, s)
                 \/ <<d, s, x>> \in marks /\ ~(changed /\ Holds(d, s))
  BY <1>1, <1>2, AnnounceView
<1>4. Types'
  BY <1>1, <1>2, <1>3 DEF Types, Republished
<1>5. \A d \in Client, s \in Stream : <<d, s>> \in failed =>
        <<d, s>> \in failed' \/ (d = c /\ Settled(c, s))
  BY <1>1
<1>6. Threads'
  <2>1. ASSUME NEW n \in wire, n.late, n.op = "start"
        PROVE  <<n.client, n.stream>> \in failed'
    <3>1. n.client \in Client /\ n.stream \in Stream /\ <<n.client, n.stream>> \in failed
      BY <2>1 DEF Threads, Types, Message
    <3>2. n.client = c => ~Settled(c, n.stream)
      BY <2>1 DEF Settled
    <3> QED
      BY <1>5, <3>1, <3>2
  <2> QED
    BY <1>1, <1>3, <2>1, RepublishedThreads
<1>7. \A d \in Client, s \in Stream :
        /\ Expects(d, s)' <=> Expects(d, s)
        /\ ClaimTerms(d, s)' = ClaimTerms(d, s)
        /\ ~Holds(d, s) => ClaimTold(d, s)' = ClaimTold(d, s)
  BY <1>1, <1>3, RepublishedClaims
<1>8. Marked'
  BY <1>3, <1>7 DEF Marked
<1>9. Served'
  <2> SUFFICES ASSUME NEW d \in Client, NEW s \in Stream, Expects(d, s)
               PROVE  /\ Unharmed(d, s)' => d \in next[s].by /\ next[s].terms = ClaimTerms(d, s)
                      /\ Reached(d, s)' => Informed(d, s)'
    BY <1>3, <1>7 DEF Served
  <2>1. d # c
    BY <1>1 DEF Threads, Expects
  <2>2. Unharmed(d, s)' => Unharmed(d, s)
    BY <1>3 DEF Unharmed, Mishap
  <2>3. Unharmed(d, s)' => d \in next[s].by /\ next[s].terms = ClaimTerms(d, s)
    BY <1>2, <2>1, <2>2 DEF Served
  <2>4. Reached(d, s)' => Informed(d, s)'
    BY <1>1, <1>2, <1>7, AnnounceInforms
  <2> QED
    BY <2>3, <2>4
<1>10. Accounted'
  BY <1>1, <1>2, <1>3, <1>5 DEF Accounted, Underway, Republished
<1> QED
  BY <1>4, <1>6, <1>8, <1>9, <1>10

\* The status of a stream changes, or the stream ends: what is announced then
\* stands, and those who expected a stream that ends are marked.
LEMMA EngineStep ==
  ASSUME IInv, NEW next \in [Stream -> {Idling} \cup Serving],
         NEW befallen \in SUBSET (Client \X Stream \X Mishap), Announce(next, befallen),
         UNCHANGED <<present, status, call, reply, wire, failed>>,
         \A s \in Stream : next[s].by \subseteq streams[s].by,
         \A c \in Client, s \in Stream : Expects(c, s) /\ c \in streams[s].by =>
           \/ c \in next[s].by /\ next[s].terms = streams[s].terms
           \/ <<c, s, "ended">> \in befallen,
         \A c \in Client, s \in Stream, x \in Mishap : <<c, s, x>> \in befallen => Expects(c, s)
  PROVE  IInv'
<1> USE DEF IInv
<1>1. /\ streams' = next /\ Republished
      /\ marks' \subseteq Client \X Stream \X Mishap
      /\ \A c \in Client, s \in Stream, x \in Mishap :
           LET changed == x = "missed" /\ next[s].health # streams[s].health
           IN  <<c, s, x>> \in marks' <=>
                 \/ <<c, s, x>> \in befallen
                 \/ changed /\ Expects(c, s) /\ ~Holds(c, s)
                 \/ <<c, s, x>> \in marks /\ ~(changed /\ Holds(c, s))
  BY AnnounceView
<1>2. Types'
  BY <1>1 DEF Types, Republished
<1>3. Threads'
  <2>1. \A n \in wire : n.late /\ n.op = "start" => <<n.client, n.stream>> \in failed
    BY DEF Threads
  <2> QED
    BY <1>1, <2>1, RepublishedThreads
<1>4. \A c \in Client, s \in Stream :
        /\ Expects(c, s)' <=> Expects(c, s)
        /\ ClaimTerms(c, s)' = ClaimTerms(c, s)
        /\ ~Holds(c, s) => ClaimTold(c, s)' = ClaimTold(c, s)
  BY <1>1, RepublishedClaims
<1>5. Marked'
  BY <1>1, <1>4 DEF Marked
<1>6. Served'
  <2> SUFFICES ASSUME NEW c \in Client, NEW s \in Stream, Expects(c, s)
               PROVE  /\ Unharmed(c, s)' => c \in next[s].by /\ next[s].terms = ClaimTerms(c, s)
                      /\ Reached(c, s)' => Informed(c, s)'
    BY <1>1, <1>4 DEF Served
  <2>1. Unharmed(c, s)' => Unharmed(c, s) /\ <<c, s, "ended">> \notin befallen
    BY <1>1 DEF Unharmed, Mishap
  <2>2. Unharmed(c, s)' => c \in next[s].by /\ next[s].terms = ClaimTerms(c, s)
    BY <2>1 DEF Served
  <2>3. Reached(c, s)' => Informed(c, s)'
    BY <1>4, AnnounceInforms
  <2> QED
    BY <2>2, <2>3
<1>7. Accounted'
  BY <1>1 DEF Accounted, Underway, Republished
<1> QED
  BY <1>2, <1>3, <1>5, <1>6, <1>7

LEMMA ChangeStep ==
  ASSUME IInv, NEW s \in Stream, Change(s)
  PROVE  IInv'
<1> USE DEF IInv
<1>1. PICK health \in Health : Announce([streams EXCEPT ![s].health = health], {})
  BY DEF Change
<1> DEFINE next == [streams EXCEPT ![s].health = health]
           e == [streams[s] EXCEPT !.health = health]
<1>2. streams[s] \in Serving
  BY DEF Change, Types, Idling, Engaged
<1>3. e \in Serving /\ e.by = streams[s].by /\ e.terms = streams[s].terms
  BY <1>2 DEF Serving
<1>4. next = [streams EXCEPT ![s] = e]
  OBVIOUS
<1> HIDE DEF e
<1>5. /\ next \in [Stream -> {Idling} \cup Serving]
      /\ \A u \in Stream : next[u].by = streams[u].by /\ next[u].terms = streams[u].terms
  BY <1>3, <1>4 DEF Types
<1> HIDE DEF next
<1>6. Announce(next, {})
  BY <1>1 DEF next
<1>7. UNCHANGED <<present, status, call, reply, wire, failed>>
  BY DEF Change
<1> QED
  BY <1>5, <1>6, <1>7, EngineStep

LEMMA EndStep ==
  ASSUME IInv, NEW s \in Stream, End(s)
  PROVE  IInv'
<1> USE DEF IInv
<1> DEFINE next == [streams EXCEPT ![s] = Idling]
           those == {c \in streams[s].by : Expects(c, s)} \X {s}
<1>1. /\ Announce(next, Mark(those, "ended"))
      /\ UNCHANGED <<present, status, call, reply, wire, failed>>
  BY DEF End
<1>2. Idling.by = {}
  BY DEF Idling, Engaged
<1>3. /\ next \in [Stream -> {Idling} \cup Serving]
      /\ \A u \in Stream : next[u] = IF u = s THEN Idling ELSE streams[u]
  BY DEF Types
<1>4. streams[s].by \subseteq Client
  <2>1. streams[s] \in {Idling} \cup Serving
    BY DEF Types
  <2> QED
    BY <1>2, <2>1 DEF Serving
<1>5. those \in SUBSET (Client \X Stream) /\ "ended" \in Mishap
  BY <1>4 DEF Mishap
<1>6. \A c \in Client, u \in Stream :
        <<c, u>> \in those <=> u = s /\ c \in streams[s].by /\ Expects(c, s)
  OBVIOUS
<1> HIDE DEF next, those
<1>7. /\ Mark(those, "ended") \in SUBSET (Client \X Stream \X Mishap)
      /\ \A c \in Client, u \in Stream, x \in Mishap :
           <<c, u, x>> \in Mark(those, "ended") <=> <<c, u>> \in those /\ x = "ended"
  BY <1>5, MarkView
<1>8. \A u \in Stream : next[u].by \subseteq streams[u].by
  BY <1>2, <1>3
<1>9. \A c \in Client, u \in Stream : Expects(c, u) /\ c \in streams[u].by =>
        \/ c \in next[u].by /\ next[u].terms = streams[u].terms
        \/ <<c, u, "ended">> \in Mark(those, "ended")
  BY <1>3, <1>5, <1>6, <1>7
<1>10. \A c \in Client, u \in Stream, x \in Mishap :
         <<c, u, x>> \in Mark(those, "ended") => Expects(c, u)
  BY <1>6, <1>7
<1> QED
  BY <1>1, <1>3, <1>7, <1>8, <1>9, <1>10, EngineStep

\* No reply that breaks the handle invariant makes a handle.
LEMMA OddReply ==
  ASSUME NEW s \in Stream, NEW r \in Odd(s)
  PROVE  from_reply(r) # "Ok"
<1> USE DEF from_reply, carries_handle, Active, Pending, Rejected
<1>1. CASE r = [status |-> 7, assigned |-> FALSE, topic |-> None]
  BY <1>1
<1>2. CASE r = [status |-> Active, assigned |-> FALSE, topic |-> None]
  BY <1>2
<1>3. CASE r = [status |-> Pending, assigned |-> TRUE, topic |-> None]
  BY <1>3
<1>4. CASE r = [status |-> Rejected, assigned |-> TRUE, topic |-> s]
  <2>1. r.status \in 0 .. 6 /\ r.assigned = TRUE /\ carries_handle(r.status) = FALSE
    BY <1>4
  <2> HIDE DEF carries_handle
  <2> QED
    BY <2>1
<1> QED
  BY <1>1, <1>2, <1>3, <1>4 DEF Odd

\* The answer to a request reaches the client that waits for it, which then
\* waits for no other; a late one changes nothing at any client.
LEMMA AnswerView ==
  ASSUME IInv, NEW m \in wire, NEW st \in 0 .. 6, NEW topic \in Stream \cup {None},
         Replies(m, st, topic)
  PROVE  /\ m \in Message /\ m.client \in Client /\ m.stream \in Stream
         /\ reply' \in [Client -> Reply \cup {None}]
         /\ wire' = wire \ {m}
         /\ m.late => reply' = reply
         /\ ~m.late =>
              /\ call[m.client] = m /\ reply[m.client] = None
              /\ reply'[m.client] \in Reply /\ reply'[m.client] # None
              /\ \/ reply'[m.client] = [status |-> st, assigned |-> topic # None, topic |-> topic]
                 \/ from_reply(reply'[m.client]) # "Ok"
              /\ \A d \in Client \ {m.client} : reply'[d] = reply[d]
<1> USE DEF IInv
<1>1. m \in Message /\ m.client \in Client /\ m.stream \in Stream /\ m # None
  BY Distinct DEF Types, Message
<1>2. /\ wire' = wire \ {m}
      /\ m.late => reply' = reply
      /\ ~m.late => \E r \in Reply :
           /\ reply' = [reply EXCEPT ![m.client] = r]
           /\ \/ r = [status |-> st, assigned |-> topic # None, topic |-> topic]
              \/ r \in Odd(m.stream)
      /\ reply' \in [Client -> Reply \cup {None}]
  BY RepliesView
<1>3. ~m.late => call[m.client] = m /\ reply[m.client] = None
  BY DEF Threads
<1>4. ~m.late =>
        /\ reply'[m.client] \in Reply /\ reply'[m.client] # None
        /\ \/ reply'[m.client] = [status |-> st, assigned |-> topic # None, topic |-> topic]
           \/ from_reply(reply'[m.client]) # "Ok"
        /\ \A d \in Client \ {m.client} : reply'[d] = reply[d]
  BY <1>1, <1>2, OddReply, Distinct DEF Types
<1> QED
  BY <1>1, <1>2, <1>3, <1>4

LEMMA AnswerThreads ==
  ASSUME IInv, NEW m \in wire, NEW st \in 0 .. 6, NEW topic \in Stream \cup {None},
         Replies(m, st, topic), Republished, UNCHANGED <<present, status, call>>,
         \A n \in wire : n.late /\ n.op = "start" => <<n.client, n.stream>> \in failed'
  PROVE  Threads'
<1> USE DEF IInv
<1>1. /\ m.client \in Client
      /\ wire' = wire \ {m}
      /\ m.late => reply' = reply
      /\ ~m.late => /\ call[m.client] = m /\ reply[m.client] = None
                    /\ \A d \in Client \ {m.client} : reply'[d] = reply[d]
  BY AnswerView
<1>2. ~m.late => call[m.client] # None
  BY <1>1, Distinct DEF Types
<1>3. \A d \in Client : reply'[d] # None => call[d] # None
  BY <1>1, <1>2 DEF Threads
<1>4. ASSUME NEW n \in wire', ~n.late
      PROVE  call[n.client] = n /\ reply'[n.client] = None
  <2>1. call[n.client] = n /\ reply[n.client] = None /\ n \in wire /\ n # m
    BY <1>1, <1>4 DEF Threads
  <2>2. n.client \in Client
    BY <2>1 DEF Types, Message
  <2>3. ~m.late => n.client # m.client
    BY <1>1, <2>1
  <2> QED
    BY <1>1, <2>1, <2>2, <2>3
<1>5. \A c \in Client :
        /\ c \notin present => \A s \in Stream : ~Holds(c, s)'
        /\ call[c] # None => (~Holds(c, call[c].stream))'
        /\ \A s \in Stream : Holds(c, s)' => s \in status[c]
  <2>1. \A c \in Client : call[c] # None => call[c].stream \in Stream
    BY DEF Types, Message
  <2> QED
    BY <2>1 DEF Threads, Republished
<1> QED
  BY <1>1, <1>3, <1>4, <1>5 DEF Threads

\* Nothing but the answer to its own start brings a client a new claim.
LEMMA AnswerExpects ==
  ASSUME IInv, NEW m \in wire, NEW st \in 0 .. 6, NEW topic \in Stream \cup {None},
         Replies(m, st, topic), Republished, UNCHANGED call, NEW c \in Client, NEW s \in Stream
  PROVE  /\ Expects(c, s) => Expects(c, s)'
         /\ Expects(c, s)' /\ ~Expects(c, s) =>
              /\ ~m.late /\ m.op = "start" /\ c = m.client /\ s = m.stream
              /\ reply'[c] = [status |-> st, assigned |-> topic # None, topic |-> topic]
              /\ from_reply(reply'[c]) = "Ok" /\ ~Holds(c, s) /\ call[c] = m
         /\ Expects(c, s) => /\ ClaimTerms(c, s)' = ClaimTerms(c, s)
                             /\ ~Holds(c, s) => ClaimTold(c, s)' = ClaimTold(c, s)
<1> USE DEF IInv
<1>1. /\ m.client \in Client
      /\ m.late => reply' = reply
      /\ ~m.late =>
           /\ call[m.client] = m /\ reply[m.client] = None
           /\ \/ reply'[m.client] = [status |-> st, assigned |-> topic # None, topic |-> topic]
              \/ from_reply(reply'[m.client]) # "Ok"
           /\ \A d \in Client \ {m.client} : reply'[d] = reply[d]
  BY AnswerView
<1>2. /\ Holds(c, s)' <=> Holds(c, s)
      /\ Holds(c, s) => records'[c][s].terms = records[c][s].terms
  BY DEF Republished
<1>3. CASE reply'[c] = reply[c]
  BY <1>2, <1>3 DEF Expects, ClaimTerms, ClaimTold
<1>4. CASE ~m.late /\ c = m.client
  BY <1>1, <1>2, <1>4 DEF Expects, ClaimTerms, ClaimTold
<1> QED
  BY <1>1, <1>3, <1>4

\* What the engine does with a start: it attaches the client, as the first or
\* on the terms the stream runs on, or refuses and leaves the stream.
LEMMA ServeStartView ==
  ASSUME Types, NEW m \in wire, ServeStart(m)
  PROVE  LET s == m.stream
         IN  \/ \E next \in [Stream -> {Idling} \cup Serving] :
                  /\ Announce(next, {}) /\ Replies(m, next[s].health, s)
                  /\ \A u \in Stream \ {s} : next[u] = streams[u]
                  /\ next[s].by = streams[s].by \cup {m.client}
                  /\ next[s].terms = m.terms /\ next[s].health \in Running
                  /\ streams[s].by # {} => next[s].terms = streams[s].terms
                  /\ streams[s].by = {} => next[s].health # streams[s].health
             \/ /\ streams[s].by = {} \/ streams[s].health = NoPath
                /\ Replies(m, NoPath, None) /\ AnnounceRefusal(s, NoPath)
             \/ /\ streams[s].by # {} /\ streams[s].terms # m.terms
                /\ Replies(m, Rejected, None) /\ AnnounceRefusal(s, Rejected)
<1> DEFINE s == m.stream
           now == streams[s]
<1>1. m \in Message /\ m.client \in Client /\ s \in Stream /\ m.terms \in Terms
  BY DEF ServeStart, Types, Message
<1>2. ASSUME NEW health \in Running, now.by # {} => now.terms = m.terms,
             Announce([streams EXCEPT ![s] =
                         Engaged(now.by \cup {m.client}, m.terms, health)], {}),
             Replies(m, health, s)
      PROVE  \E next \in [Stream -> {Idling} \cup Serving] :
               /\ Announce(next, {}) /\ Replies(m, next[s].health, s)
               /\ \A u \in Stream \ {s} : next[u] = streams[u]
               /\ next[s].by = now.by \cup {m.client}
               /\ next[s].terms = m.terms /\ next[s].health \in Running
               /\ now.by # {} => next[s].terms = now.terms
               /\ now.by = {} => next[s].health # now.health
  <2> DEFINE e == Engaged(now.by \cup {m.client}, m.terms, health)
             next == [streams EXCEPT ![s] = e]
  <2>1. /\ Idling.by = {} /\ Idling.health = Inactive
        /\ \A stream \in Serving : stream.by \subseteq Client /\ stream.by # {}
    BY DEF Idling, Engaged, Serving
  <2>2. /\ now.by \subseteq Client
        /\ now.by = {} => now.health = Inactive
    <3>1. now \in {Idling} \cup Serving
      BY <1>1 DEF Types
    <3> QED
      BY <2>1, <3>1
  <2>3. e \in Serving /\ e.by = now.by \cup {m.client} /\ e.terms = m.terms /\ e.health = health
    <3>1. now.by \cup {m.client} \in (SUBSET Client) \ {{}}
      BY <1>1, <2>2
    <3> QED
      BY <1>1, <3>1 DEF Serving, Engaged, Health
  <2>4. health # Inactive
    BY DEF Running, Active, Pending, Inactive
  <2>5. Announce(next, {})
    BY <1>2
  <2> HIDE DEF e
  <2>6. /\ next \in [Stream -> {Idling} \cup Serving]
        /\ \A u \in Stream : next[u] = IF u = s THEN e ELSE streams[u]
    BY <1>1, <2>3 DEF Types
  <2> HIDE DEF next, now, s
  <2>7. next[s] = e /\ \A u \in Stream \ {s} : next[u] = streams[u]
    BY <1>1, <2>6
  <2>8. /\ Replies(m, next[s].health, s) /\ next[s].health \in Running
        /\ next[s].by = now.by \cup {m.client} /\ next[s].terms = m.terms
        /\ now.by # {} => next[s].terms = now.terms
        /\ now.by = {} => next[s].health # now.health
    BY <1>2, <2>2, <2>3, <2>4, <2>7
  <2> QED
    BY <2>5, <2>6, <2>7, <2>8
<1>3. \/ \E health \in Running :
              /\ now.by # {} => now.terms = m.terms
              /\ Announce([streams EXCEPT ![s] =
                             Engaged(now.by \cup {m.client}, m.terms, health)], {})
              /\ Replies(m, health, s)
      \/ /\ now.by = {} \/ now.health = NoPath
         /\ Replies(m, NoPath, None) /\ AnnounceRefusal(s, NoPath)
      \/ /\ now.by # {} /\ now.terms # m.terms
         /\ Replies(m, Rejected, None) /\ AnnounceRefusal(s, Rejected)
  BY DEF ServeStart
<1> HIDE DEF s, now
<1> QED
  BY <1>2, <1>3 DEF s, now

\* An answered start: whoever is attached now is accounted for.
LEMMA StartAccounted ==
  ASSUME IInv, NEW m \in wire, NEW st \in 0 .. 6, NEW topic \in Stream \cup {None},
         Replies(m, st, topic), Republished, UNCHANGED <<call, failed>>, m.op = "start",
         \A u \in Stream : streams'[u].by \subseteq streams[u].by \cup
           (IF u = m.stream THEN {m.client} ELSE {})
  PROVE  Accounted'
<1> USE DEF IInv
<1>1. /\ m \in Message /\ m.client \in Client /\ m.stream \in Stream
      /\ m.late => reply' = reply
      /\ ~m.late => /\ call[m.client] = m /\ reply[m.client] = None
                    /\ reply'[m.client] # None
                    /\ \A d \in Client \ {m.client} : reply'[d] = reply[d]
  BY AnswerView
<1> SUFFICES ASSUME NEW d \in Client, NEW u \in Stream, d \in streams'[u].by
             PROVE  Holds(d, u)' \/ Underway(d, u)' \/ <<d, u>> \in failed'
  BY DEF Accounted
<1>2. CASE d = m.client /\ u = m.stream
  <2>1. m.late => <<d, u>> \in failed
    BY <1>2 DEF Threads
  <2>2. ~m.late => Underway(d, u)'
    BY <1>1, <1>2, Distinct DEF Underway
  <2> QED
    BY <2>1, <2>2
<1>3. CASE d # m.client \/ u # m.stream
  <2>1. d \in streams[u].by
    BY <1>3
  <2>2. Underway(d, u) => Underway(d, u)'
    BY <1>1, <1>3 DEF Underway
  <2> QED
    BY <2>1, <2>2 DEF Accounted, Republished
<1> QED
  BY <1>2, <1>3

\* A start that is refused leaves every claim as it was.
LEMMA RefusedStep ==
  ASSUME IInv, NEW m \in wire, m.op = "start", UNCHANGED <<present, status, call, failed>>,
         NEW st \in {NoPath, Rejected}, Replies(m, st, None), AnnounceRefusal(m.stream, st),
         st = NoPath => streams[m.stream].by = {} \/ streams[m.stream].health = NoPath
  PROVE  IInv'
<1> USE DEF IInv
<1> DEFINE s == m.stream
<1>1. /\ m \in Message /\ s \in Stream /\ st \in 0 .. 6 /\ st \in Status
      /\ reply' \in [Client -> Reply \cup {None}] /\ wire' = wire \ {m}
  <2>1. st \in 0 .. 6 /\ st \in Status
    BY DEF NoPath, Rejected, Status, Health
  <2>2. None \in Stream \cup {None}
    OBVIOUS
  <2> QED
    BY <2>1, <2>2, AnswerView
<1>2. /\ Republished /\ UNCHANGED <<streams, marks>>
      /\ \A c \in Client, u \in Stream : Holds(c, u) =>
           records'[c][u].told = IF u = s THEN st ELSE records[c][u].told
  BY <1>1, RefusalView
<1>3. \A c \in Client, u \in Stream :
        /\ Expects(c, u)' <=> Expects(c, u)
        /\ Expects(c, u) => /\ ClaimTerms(c, u)' = ClaimTerms(c, u)
                            /\ ~Holds(c, u) => ClaimTold(c, u)' = ClaimTold(c, u)
  <2> SUFFICES ASSUME NEW c \in Client, NEW u \in Stream
               PROVE  /\ Expects(c, u)' <=> Expects(c, u)
                      /\ Expects(c, u) => /\ ClaimTerms(c, u)' = ClaimTerms(c, u)
                                          /\ ~Holds(c, u) => ClaimTold(c, u)' = ClaimTold(c, u)
    OBVIOUS
  <2>1. /\ Expects(c, u) => Expects(c, u)'
        /\ Expects(c, u)' /\ ~Expects(c, u) =>
             /\ ~m.late /\ c = m.client
             /\ reply'[c] = [status |-> st, assigned |-> None # None, topic |-> None]
             /\ from_reply(reply'[c]) = "Ok"
        /\ Expects(c, u) => /\ ClaimTerms(c, u)' = ClaimTerms(c, u)
                            /\ ~Holds(c, u) => ClaimTold(c, u)' = ClaimTold(c, u)
    BY <1>1, <1>2, AnswerExpects
  <2>2. ASSUME reply'[c] = [status |-> st, assigned |-> None # None, topic |-> None]
        PROVE  from_reply(reply'[c]) # "Ok"
    BY <2>2 DEF from_reply
  <2> QED
    BY <2>1, <2>2
<1>4. Types'
  BY <1>1, <1>2 DEF Types, Republished
<1>5. Threads'
  BY <1>1, <1>2, AnswerThreads DEF Threads
<1>6. Marked'
  BY <1>2, <1>3 DEF Marked
<1>7. Served'
  <2> SUFFICES ASSUME NEW c \in Client, NEW u \in Stream, Expects(c, u)
               PROVE  /\ Unharmed(c, u)' => c \in streams[u].by /\ streams[u].terms = ClaimTerms(c, u)
                      /\ Reached(c, u)' => Informed(c, u)'
    BY <1>2, <1>3 DEF Served
  <2>1. (Unharmed(c, u)' => Unharmed(c, u)) /\ (Reached(c, u)' => Reached(c, u))
    BY <1>2 DEF Unharmed, Reached
  <2>2. Reached(c, u) => Informed(c, u)
    BY DEF Served
  <2>3. Holds(c, u)' <=> Holds(c, u)
    BY <1>2 DEF Republished
  <2>4. ASSUME Informed(c, u) PROVE Informed(c, u)'
    <3>1. CASE Holds(c, u) /\ u = s
      BY <1>2, <2>3, <3>1 DEF Informed, ClaimTold
    <3>2. CASE ~Holds(c, u)
      BY <1>2, <1>3, <2>3, <2>4, <3>2 DEF Informed
    <3>3. CASE Holds(c, u) /\ u # s
      <4>1. ClaimTold(c, u)' = ClaimTold(c, u)
        BY <1>2, <2>3, <3>3 DEF ClaimTold
      <4> QED
        BY <1>2, <2>3, <2>4, <4>1 DEF Informed
    <3> QED
      BY <3>1, <3>2, <3>3
  <2> QED
    BY <2>1, <2>2, <2>4 DEF Served
<1>8. Accounted'
  <2>1. \A u \in Stream : streams'[u].by \subseteq streams[u].by \cup
           (IF u = m.stream THEN {m.client} ELSE {})
    BY <1>2
  <2>2. None \in Stream \cup {None}
    OBVIOUS
  <2> QED
    BY <1>1, <1>2, <2>1, <2>2, StartAccounted
<1> QED
  BY <1>4, <1>5, <1>6, <1>7, <1>8

\* A start that is served makes a claim of its client's, and informs the others.
LEMMA AttachedStep ==
  ASSUME IInv, NEW m \in wire, m.op = "start", UNCHANGED <<present, status, call, failed>>,
         NEW next \in [Stream -> {Idling} \cup Serving], Announce(next, {}),
         Replies(m, next[m.stream].health, m.stream),
         \A u \in Stream \ {m.stream} : next[u] = streams[u],
         next[m.stream].by = streams[m.stream].by \cup {m.client},
         next[m.stream].terms = m.terms, next[m.stream].health \in Running,
         streams[m.stream].by # {} => next[m.stream].terms = streams[m.stream].terms,
         streams[m.stream].by = {} => next[m.stream].health # streams[m.stream].health
  PROVE  IInv'
<1> USE DEF IInv
<1> DEFINE s == m.stream
           st == next[s].health
<1>1. /\ m \in Message /\ s \in Stream /\ st \in 0 .. 6
      /\ reply' \in [Client -> Reply \cup {None}] /\ wire' = wire \ {m}
  <2>1. m.stream \in Stream
    BY DEF Types, Message
  <2>2. st \in 0 .. 6 /\ s \in Stream \cup {None}
    BY <2>1 DEF Running, Active, Pending
  <2> QED
    BY <2>2, AnswerView
<1>2. /\ streams' = next /\ Republished
      /\ marks' \subseteq Client \X Stream \X Mishap
      /\ \A c \in Client, u \in Stream, x \in Mishap :
           LET changed == x = "missed" /\ next[u].health # streams[u].health
           IN  <<c, u, x>> \in marks' <=>
                 \/ <<c, u, x>> \in {}
                 \/ changed /\ Expects(c, u) /\ ~Holds(c, u)
                 \/ <<c, u, x>> \in marks /\ ~(changed /\ Holds(c, u))
  BY AnnounceView
<1>3. \A c \in Client, u \in Stream :
        /\ Expects(c, u) => Expects(c, u)'
        /\ Expects(c, u)' /\ ~Expects(c, u) =>
             /\ ~m.late /\ c = m.client /\ u = s
             /\ reply'[c] = [status |-> st, assigned |-> s # None, topic |-> s]
             /\ ~Holds(c, u) /\ call[c] = m
        /\ Expects(c, u) => /\ ClaimTerms(c, u)' = ClaimTerms(c, u)
                            /\ ~Holds(c, u) => ClaimTold(c, u)' = ClaimTold(c, u)
  BY <1>1, <1>2, AnswerExpects
<1>4. Types'
  BY <1>1, <1>2 DEF Types, Republished
<1>5. Threads'
  BY <1>1, <1>2, AnswerThreads DEF Threads
<1>6. Marked'
  BY <1>2, <1>3 DEF Marked
<1>7. Served'
  <2> SUFFICES ASSUME NEW c \in Client, NEW u \in Stream, Expects(c, u)'
               PROVE  /\ Unharmed(c, u)' => c \in next[u].by /\ next[u].terms = ClaimTerms(c, u)'
                      /\ Reached(c, u)' => Informed(c, u)'
    BY <1>2 DEF Served
  <2>1. CASE Expects(c, u)
    <3>1. Unharmed(c, u)' => Unharmed(c, u)
      BY <1>2 DEF Unharmed, Mishap
    <3>2. Unharmed(c, u) => c \in streams[u].by /\ streams[u].terms = ClaimTerms(c, u)
      BY <2>1 DEF Served
    <3>3. Unharmed(c, u)' => c \in next[u].by /\ next[u].terms = ClaimTerms(c, u)'
      BY <1>3, <2>1, <3>1, <3>2
    <3>4. next[u].health = streams[u].health /\ streams[u].by = {} => next[u].by = {}
      OBVIOUS
    <3>5. Reached(c, u)' => Informed(c, u)'
      BY <1>3, <2>1, <3>4, AnnounceInforms
    <3> QED
      BY <3>3, <3>5
  <2>2. CASE ~Expects(c, u)
    <3>1. /\ c = m.client /\ u = s /\ ~Holds(c, u) /\ call[c] = m /\ reply'[c].status = st
      BY <1>3, <2>2
    <3>2. ClaimTerms(c, u)' = m.terms /\ ClaimTold(c, u)' = st
      BY <1>2, <3>1 DEF ClaimTerms, ClaimTold, Republished
    <3> QED
      BY <1>2, <3>1, <3>2 DEF Informed
  <2> QED
    BY <2>1, <2>2
<1>8. Accounted'
  <2>1. \A u \in Stream : streams'[u].by \subseteq streams[u].by \cup
           (IF u = m.stream THEN {m.client} ELSE {})
    BY <1>2
  <2> QED
    BY <1>1, <1>2, <2>1, StartAccounted
<1> QED
  BY <1>4, <1>5, <1>6, <1>7, <1>8

LEMMA ServeStartStep ==
  ASSUME IInv, NEW m \in wire, ServeStart(m)
  PROVE  IInv'
<1>1. m.op = "start" /\ UNCHANGED <<present, status, call, failed>>
  BY DEF ServeStart
<1>2. Types
  BY DEF IInv
<1>3. NoPath # Rejected
  BY DEF NoPath, Rejected
<1> QED
  BY <1>1, <1>2, <1>3, ServeStartView, AttachedStep, RefusedStep

LEMMA ServeStopStep ==
  ASSUME IInv, NEW m \in wire, ServeStop(m)
  PROVE  IInv'
<1> USE DEF IInv
<1> DEFINE c == m.client
           s == m.stream
           next == [streams EXCEPT ![s] = Without(streams[s], {c})]
           struck == m.late /\ c \in streams[s].by /\ Expects(c, s)
           befallen == IF struck THEN Mark({<<c, s>>}, "struck") ELSE {}
<1>1. /\ UNCHANGED <<present, status, call>> /\ m.op = "stop"
      /\ Replies(m, Inactive, None) /\ Inactive \in 0 .. 6
      /\ Announce(next, befallen)
      /\ failed' = IF Settled(c, s) THEN failed \ {<<c, s>>} ELSE failed
  BY DEF ServeStop, Inactive
<1>2. /\ m \in Message /\ c \in Client /\ s \in Stream
      /\ reply' \in [Client -> Reply \cup {None}]
      /\ wire' = wire \ {m}
      /\ m.late => reply' = reply
      /\ ~m.late => /\ call[c] = m /\ reply[c] = None /\ reply'[c] # None
                    /\ \A d \in Client \ {c} : reply'[d] = reply[d]
  BY <1>1, AnswerView
<1>3. /\ next \in [Stream -> {Idling} \cup Serving]
      /\ \A u \in Stream \ {s} : next[u] = streams[u]
      /\ next[s].by = streams[s].by \ {c}
      /\ streams[s].by \ {c} # {} => next[s].terms = streams[s].terms
  <2>1. streams[s] \in {Idling} \cup Serving
    BY <1>2 DEF Types
  <2> HIDE DEF c, s
  <2> QED
    BY <1>2, <2>1, WithoutView DEF Types
<1>4. /\ befallen \in SUBSET (Client \X Stream \X Mishap)
      /\ \A d \in Client, u \in Stream, x \in Mishap :
           <<d, u, x>> \in befallen <=> struck /\ d = c /\ u = s /\ x = "struck"
  <2>1. {<<c, s>>} \in SUBSET (Client \X Stream) /\ "struck" \in Mishap
    BY <1>2 DEF Mishap
  <2>2. /\ Mark({<<c, s>>}, "struck") \subseteq Client \X Stream \X Mishap
        /\ \A d \in Client, u \in Stream, x \in Mishap :
             <<d, u, x>> \in Mark({<<c, s>>}, "struck") <=> <<d, u>> \in {<<c, s>>} /\ x = "struck"
    BY <2>1, MarkView
  <2> HIDE DEF c, s, struck
  <2> QED
    BY <2>2
<1> HIDE DEF c, s, next, befallen, struck
<1>5. /\ streams' = next /\ Republished
      /\ marks' \subseteq Client \X Stream \X Mishap
      /\ \A d \in Client, u \in Stream, x \in Mishap :
           LET changed == x = "missed" /\ next[u].health # streams[u].health
           IN  <<d, u, x>> \in marks' <=>
                 \/ <<d, u, x>> \in befallen
                 \/ changed /\ Expects(d, u) /\ ~Holds(d, u)
                 \/ <<d, u, x>> \in marks /\ ~(changed /\ Holds(d, u))
  BY <1>1, <1>3, <1>4, AnnounceView
<1>6. \A d \in Client, u \in Stream :
        /\ Expects(d, u)' <=> Expects(d, u)
        /\ Expects(d, u) => /\ ClaimTerms(d, u)' = ClaimTerms(d, u)
                            /\ ~Holds(d, u) => ClaimTold(d, u)' = ClaimTold(d, u)
  <2>1. \A d \in Client, u \in Stream :
          /\ Expects(d, u) => Expects(d, u)'
          /\ Expects(d, u)' /\ ~Expects(d, u) => m.op = "start"
          /\ Expects(d, u) => /\ ClaimTerms(d, u)' = ClaimTerms(d, u)
                              /\ ~Holds(d, u) => ClaimTold(d, u)' = ClaimTold(d, u)
    <3>1. PICK st \in 0 .. 6, topic \in Stream \cup {None} : Replies(m, st, topic)
      BY <1>1
    <3>2. Republished /\ UNCHANGED call
      BY <1>1, <1>5
    <3> HIDE DEF IInv
    <3>3. \A d \in Client, u \in Stream :
            /\ Expects(d, u) => Expects(d, u)'
            /\ Expects(d, u)' /\ ~Expects(d, u) =>
                 /\ ~m.late /\ m.op = "start" /\ d = m.client /\ u = m.stream
                 /\ reply'[d] = [status |-> st, assigned |-> topic # None, topic |-> topic]
                 /\ from_reply(reply'[d]) = "Ok" /\ ~Holds(d, u) /\ call[d] = m
            /\ Expects(d, u) => /\ ClaimTerms(d, u)' = ClaimTerms(d, u)
                                /\ ~Holds(d, u) => ClaimTold(d, u)' = ClaimTold(d, u)
      BY <3>1, <3>2, AnswerExpects
    <3> QED
      BY <3>3
  <2> QED
    BY <1>1, <2>1
<1>7. \A d \in Client, u \in Stream : <<d, u>> \in failed =>
        <<d, u>> \in failed' \/ (d = c /\ u = s /\ Settled(c, s))
  BY <1>1
<1>8. Types'
  <2>1. failed' \subseteq Client \X Stream
    BY <1>1 DEF Types
  <2> QED
    BY <1>1, <1>2, <1>3, <1>5, <2>1 DEF Types, Republished
<1>9. Threads'
  <2>1. ASSUME NEW n \in wire, n.late, n.op = "start"
        PROVE  <<n.client, n.stream>> \in failed'
    <3>1. n.client \in Client /\ n.stream \in Stream /\ <<n.client, n.stream>> \in failed
      BY <2>1 DEF Threads, Types, Message
    <3>2. n.client = c /\ n.stream = s => ~Settled(c, s)
      BY <2>1 DEF Settled
    <3> QED
      BY <1>7, <3>1, <3>2
  <2> QED
    BY <1>1, <1>5, <2>1, AnswerThreads
<1>10. Marked'
  BY <1>4, <1>5, <1>6 DEF Marked, struck
<1>11. ~m.late => ~Expects(c, s)
  <2> SUFFICES ASSUME ~m.late PROVE ~Expects(c, s)
    OBVIOUS
  <2>1. call[c] # None /\ call[c] = m
    BY <1>2, Distinct
  <2>2. ~Holds(c, s)
    BY <1>2, <2>1 DEF Threads, s
  <2> QED
    BY <1>1, <2>1, <2>2 DEF Expects
<1>12. Served'
  <2> SUFFICES ASSUME NEW d \in Client, NEW u \in Stream, Expects(d, u)
               PROVE  /\ Unharmed(d, u)' => d \in next[u].by /\ next[u].terms = ClaimTerms(d, u)
                      /\ Reached(d, u)' => Informed(d, u)'
    BY <1>5, <1>6 DEF Served
  <2>1. Unharmed(d, u)' => d \in next[u].by /\ next[u].terms = ClaimTerms(d, u)
    <3> SUFFICES ASSUME Unharmed(d, u)'
                 PROVE  d \in next[u].by /\ next[u].terms = ClaimTerms(d, u)
      OBVIOUS
    <3>1. Unharmed(d, u) /\ ~(struck /\ d = c /\ u = s)
      BY <1>4, <1>5 DEF Unharmed, Mishap
    <3>2. d \in streams[u].by /\ streams[u].terms = ClaimTerms(d, u)
      BY <3>1 DEF Served
    <3>3. ~(d = c /\ u = s)
      BY <1>11, <3>1, <3>2 DEF struck
    <3> QED
      BY <1>3, <3>2, <3>3
  <2>2. streams[u].by = {} => next[u].by = {}
    BY <1>3
  <2>3. Reached(d, u)' => Informed(d, u)'
    BY <1>1, <1>3, <1>4, <1>6, <2>2, AnnounceInforms
  <2> QED
    BY <2>1, <2>3
<1>13. Accounted'
  <2> SUFFICES ASSUME NEW d \in Client, NEW u \in Stream, d \in next[u].by
               PROVE  Holds(d, u)' \/ Underway(d, u)' \/ <<d, u>> \in failed'
    BY <1>5 DEF Accounted
  <2>1. d \in streams[u].by /\ ~(d = c /\ u = s)
    BY <1>3
  <2>2. Underway(d, u) => Underway(d, u)'
    BY <1>1, <1>2, <2>1 DEF Underway, s
  <2> QED
    BY <1>5, <1>7, <2>1, <2>2 DEF Accounted, Republished
<1> QED
  BY <1>8, <1>9, <1>10, <1>12, <1>13

\* The engine restarts, and every claim is lost.
LEMMA RestartStep ==
  ASSUME IInv, Restart
  PROVE  IInv'
<1> USE DEF IInv
<1> DEFINE all == {p \in Client \X Stream : Expects(p[1], p[2])}
<1>1. /\ streams' = [s \in Stream |-> Idling] /\ marks' = marks \cup Mark(all, "lost")
      /\ UNCHANGED <<present, records, status, call, reply, wire, failed>>
  BY DEF Restart, clientside
<1>2. /\ marks' \subseteq Client \X Stream \X Mishap
      /\ \A c \in Client, s \in Stream, x \in Mishap :
           <<c, s, x>> \in marks' <=> \/ <<c, s, x>> \in marks
                                      \/ Expects(c, s) /\ x = "lost"
  <2>1. all \in SUBSET (Client \X Stream) /\ "lost" \in Mishap
    BY DEF Mishap
  <2>2. \A c \in Client, s \in Stream : <<c, s>> \in all <=> Expects(c, s)
    OBVIOUS
  <2> HIDE DEF all
  <2>3. /\ Mark(all, "lost") \subseteq Client \X Stream \X Mishap
        /\ \A c \in Client, s \in Stream, x \in Mishap :
             <<c, s, x>> \in Mark(all, "lost") <=> <<c, s>> \in all /\ x = "lost"
    BY <2>1, MarkView
  <2> QED
    BY <1>1, <2>2, <2>3 DEF Types
<1>3. Types'
  BY <1>1, <1>2 DEF Types
<1>4. Threads'
  BY <1>1 DEF Threads, Holds
<1>5. \A c \in Client, s \in Stream : Expects(c, s)' <=> Expects(c, s)
  BY <1>1 DEF Expects, Holds
<1>6. Marked'
  BY <1>2, <1>5 DEF Marked
<1>7. Served'
  BY <1>2, <1>5 DEF Served, Unharmed, Reached, Mishap
<1>8. Accounted'
  BY <1>1 DEF Accounted, Idling, Engaged
<1> QED
  BY <1>3, <1>4, <1>6, <1>7, <1>8

\* The invariant holds at the start, and every step keeps it.
LEMMA InitIInv == Init => IInv
<1> SUFFICES ASSUME Init PROVE IInv
  OBVIOUS
<1>1. Types
  BY DEF Init, Types
<1>2. \A c \in Client, s \in Stream : ~Holds(c, s) /\ ~Expects(c, s)
  BY DEF Init, Holds, Expects
<1>3. Threads
  BY <1>2 DEF Init, Threads
<1>4. Marked
  BY DEF Init, Marked
<1>5. Served
  BY <1>2 DEF Served
<1>6. Accounted
  BY DEF Init, Accounted, Idling, Engaged
<1> QED
  BY <1>1, <1>3, <1>4, <1>5, <1>6 DEF IInv

LEMMA NextIInv == IInv /\ [Next]_vars => IInv'
<1> SUFFICES ASSUME IInv, [Next]_vars PROVE IInv'
  OBVIOUS
<1>1. ASSUME NEW c \in Client,
             \/ Open(c) \/ Close(c) \/ Crash(c) \/ Sweep(c)
             \/ \E s \in Stream, t \in Terms : Join(c, s, t) \/ Start(c, s, t)
             \/ \E s \in Stream : Release(c, s) \/ Notice(c, s)
             \/ StartAnswered(c) \/ StopAnswered(c) \/ GiveUp(c)
      PROVE  IInv'
  BY <1>1, SessionStep, CrashStep, SweepStep, JoinStep, StartStep, ReleaseStep,
     NoticeStep, ReturnStep
<1>2. ASSUME NEW m \in wire, Lose(m) \/ ServeStart(m) \/ ServeStop(m)
      PROVE  IInv'
  BY <1>2, LoseStep, ServeStartStep, ServeStopStep
<1>3. ASSUME NEW s \in Stream, Change(s) \/ End(s) PROVE IInv'
  BY <1>3, ChangeStep, EndStep
<1>4. CASE Restart
  BY <1>4, RestartStep
<1>5. CASE UNCHANGED vars
  <2>1. UNCHANGED <<present, records, status, call, reply, wire, streams, marks, failed>>
    BY <1>5 DEF vars, clientside
  <2>2. SameClaims
    BY <2>1 DEF SameClaims, Holds, IInv, Types
  <2> QED
    BY <2>1, <2>2, QuietStep
<1> QED
  BY <1>1, <1>2, <1>3, <1>4, <1>5 DEF Next

LEMMA Invariant == Spec => []IInv
<1>1. Spec => Init /\ [][Next]_vars
  BY DEF Spec
<1> QED
  BY <1>1, InitIInv, NextIInv, PTL

---------------------------------------------------------------------------
(* What it means for those who use the service.                            *)

\* A thread gets an answer only from the engine, to what it asked.
LEMMA AnswersComeFromTheEngine ==
  ASSUME IInv, [Next]_vars, NEW c \in Client, reply[c] = None, reply'[c] # None
  PROVE  \E m \in wire :
           /\ ServeStart(m) \/ ServeStop(m)
           /\ ~m.late /\ m.client = c /\ call[c] = m /\ m # None
<1> USE DEF IInv
<1>1. reply' # reply
  OBVIOUS
<1>2. ASSUME NEW d \in Client, reply' = [reply EXCEPT ![d] = None]
      PROVE  FALSE
  BY <1>2 DEF Types
<1>3. PICK m \in wire : ServeStart(m) \/ ServeStop(m)
  BY <1>1, <1>2, ZenonT(30)
     DEF Next, vars, Open, Close, Crash, Sweep, Join, Start, Release, Notice,
         StartAnswered, StopAnswered, GiveUp, Lose, Change, End, Restart, clientside
<1>4. ~m.late /\ m.client = c
  <2>1. PICK st \in 0 .. 6, topic \in Stream \cup {None} : Replies(m, st, topic)
    <3>1. Running \subseteq 0 .. 6 /\ NoPath \in 0 .. 6 /\ Rejected \in 0 .. 6
          /\ Inactive \in 0 .. 6
      BY DEF Running, Active, Pending, NoPath, Rejected, Inactive
    <3>2. streams \in [Stream -> {Idling} \cup Serving] /\ m.stream \in Stream
      BY DEF Types, Message
    <3>3. CASE ServeStart(m)
      BY <3>1, <3>2, <3>3, ServeStartView
    <3>4. CASE ServeStop(m)
      BY <3>1, <3>4 DEF ServeStop
    <3> QED
      BY <1>3, <3>3, <3>4
  <2>2. /\ m.late => reply' = reply
        /\ ~m.late => \A d \in Client \ {m.client} : reply'[d] = reply[d]
    BY <2>1, AnswerView
  <2> QED
    BY <1>1, <2>2
<1>5. call[c] = m /\ m # None
  BY <1>4, Distinct DEF Threads, Types
<1> QED
  BY <1>3, <1>4, <1>5

\* The one reply that is Rejected without a handle is the refusal of a start.
LEMMA RejectionsAreRefusals ==
  ASSUME IInv, NEW m \in wire, ServeStart(m) \/ ServeStop(m), ~m.late,
         reply'[m.client].status = Rejected, ~reply'[m.client].assigned
  PROVE  m.op = "start" /\ streams[m.stream].by # {}
<1> USE DEF IInv
<1>1. m \in Message /\ m.client \in Client /\ m.stream \in Stream
  BY DEF Types, Message
<1>2. \A r \in Odd(m.stream) : r.status # Rejected \/ r.assigned
  BY DEF Odd, Active, Pending, Rejected
<1>3. ASSUME NEW st \in 0 .. 6, NEW topic \in Stream \cup {None}, Replies(m, st, topic)
      PROVE  st = Rejected
  <2>1. PICK r \in Reply :
          /\ reply' = [reply EXCEPT ![m.client] = r]
          /\ \/ r = [status |-> st, assigned |-> topic # None, topic |-> topic]
             \/ r \in Odd(m.stream)
    BY <1>3, RepliesView
  <2>2. reply'[m.client] = r
    BY <1>1, <2>1 DEF Types
  <2>3. r \notin Odd(m.stream)
    BY <1>2, <2>2
  <2>4. r.status = st
    BY <2>1, <2>3
  <2> QED
    BY <2>2, <2>4
<1>4. /\ Running \subseteq 0 .. 6 /\ NoPath \in 0 .. 6 /\ Inactive \in 0 .. 6
      /\ Rejected \notin Running /\ Rejected # NoPath /\ Rejected # Inactive
  BY DEF Running, Active, Pending, NoPath, Rejected, Inactive
<1>5. ~ServeStop(m)
  BY <1>3, <1>4 DEF ServeStop
<1>6. streams[m.stream].by # {}
  <2>1. None \in Stream \cup {None} /\ NoPath \in 0 .. 6 /\ Rejected \in 0 .. 6
    BY DEF NoPath, Rejected
  <2> QED
    BY <1>1, <1>3, <1>4, <1>5, <2>1, ServeStartView
<1> QED
  BY <1>5, <1>6 DEF ServeStart

(* Every reachable state is well-typed, and what is noted of a claim is    *)
(* noted of one there is: a client that is gone has no record, no call and *)
(* no subscriber left (session.h, lease.h).                                *)
THEOREM ServiceTypes == Spec => []TypeOK
<1>1. IInv => TypeOK
  <2> SUFFICES ASSUME IInv PROVE TypeOK
    OBVIOUS
  <2>1. \A m \in marks : /\ m[1] \in Client /\ m[2] \in Stream /\ m[3] \in Mishap
                         /\ m = <<m[1], m[2], m[3]>>
    BY DEF IInv, Types
  <2>2. \A m \in marks : Expects(m[1], m[2])
    BY <2>1 DEF IInv, Marked
  <2> QED
    BY <2>2 DEF IInv, Types, TypeOK
<1> QED
  BY <1>1, Invariant, PTL

(* Of any number of clients, each is served what it holds, on its record's *)
(* terms, while neither the engine has ended it, by a restart or for all,  *)
(* nor a late stop of its own: nothing another client does and no reply it *)
(* must not get takes it away (lease.h acquire and retire, session.h       *)
(* StartFn, handle.h).                                                     *)
THEOREM ClaimsAreServed == Spec => []HeldIsServed
<1>1. IInv => HeldIsServed
  <2> SUFFICES ASSUME IInv, NEW c \in Client, NEW s \in Stream, Holds(c, s),
                      {"struck", "lost", "ended"} \cap {m[3] : m \in marks \ Unmarked(c, s)} = {}
               PROVE  c \in streams[s].by /\ streams[s].terms = records[c][s].terms
    BY DEF HeldIsServed
  <2>1. Unharmed(c, s)
    <3> SUFFICES ASSUME NEW x \in {"struck", "lost", "ended"}, <<c, s, x>> \in marks
                 PROVE  FALSE
      BY DEF Unharmed
    <3> DEFINE m == <<c, s, x>>
    <3>1. m \in marks \ Unmarked(c, s) /\ m[3] = x
      BY DEF Unmarked
    <3> QED
      BY <3>1
  <2> QED
    BY <2>1 DEF IInv, Served, Expects, ClaimTerms
<1> QED
  BY <1>1, Invariant, PTL

(* Each of them knows the status of what it holds, that it has none any    *)
(* more included, but for a restart, for what was published before its     *)
(* subscriber was there, and for the last refusal of somebody's start      *)
(* (session.h StartFn, which subscribes when it has the answer).           *)
THEOREM StatusIsKnown == Spec => []StatusIsCurrent
<1>1. IInv => StatusIsCurrent
  BY DEF IInv, StatusIsCurrent, Served, Reached, Informed, Expects, ClaimTold
<1> QED
  BY <1>1, Invariant, PTL

(* Nobody who is present is attached to a stream without a reason: the     *)
(* stop retire sends, a call that failed, or the death of an earlier       *)
(* process with the client id, which open does not wait for the engine to  *)
(* sweep, accounts for every attachment that has no record (lease.h        *)
(* retire, session.h open).                                                *)
THEOREM OrphansAreKnown == Spec => []NoSilentOrphans
<1>1. IInv => NoSilentOrphans
  BY DEF IInv, NoSilentOrphans, Accounted, Underway, Types
<1> QED
  BY <1>1, Invariant, PTL

(* The stop that a StopFn waits for finds its status subscriber in place:  *)
(* retire drops it after StopFn has returned (lease.h retire).             *)
THEOREM SubscriberOutlivesStop == Spec => LastStatusIsHeard
<1> DEFINE Heard ==
      \A c \in Client :
        reply[c] = None /\ reply'[c] # None /\ call[c].op = "stop" =>
          call[c].stream \in status[c]
<1>1. IInv /\ [Next]_vars => Heard
  BY AnswersComeFromTheEngine DEF IInv, Threads
<1>2. Spec => [][Next]_vars
  BY DEF Spec
<1> HIDE DEF Heard
<1>3. IInv /\ [Next]_vars => [Heard]_vars
  BY <1>1
<1>4. Spec => [][Heard]_vars
  BY <1>2, <1>3, Invariant, PTL
<1> QED
  BY <1>4 DEF LastStatusIsHeard, Heard

(* No start is refused for what the client's own table holds: only for     *)
(* another client's stream, or for what a failed call or an earlier        *)
(* process left behind (lease.h acquire, which asks only for what it has   *)
(* no record of).                                                          *)
THEOREM TablesDoNotRefuseThemselves == Spec => RejectedForOthers
<1> DEFINE Others ==
      \A c \in Client :
        (/\ reply[c] = None /\ reply'[c] # None
         /\ reply'[c].status = Rejected /\ ~reply'[c].assigned) =>
          \/ streams[call[c].stream].by \ {c} # {}
          \/ <<c, call[c].stream>> \in failed
<1>1. IInv /\ [Next]_vars => Others
  <2> SUFFICES ASSUME IInv, [Next]_vars, NEW c \in Client,
                      reply[c] = None, reply'[c] # None,
                      reply'[c].status = Rejected, ~reply'[c].assigned,
                      streams[call[c].stream].by \subseteq {c}
               PROVE  <<c, call[c].stream>> \in failed
    BY DEF Others
  <2>1. PICK m \in wire :
          /\ ServeStart(m) \/ ServeStop(m)
          /\ ~m.late /\ m.client = c /\ call[c] = m /\ m # None
    BY AnswersComeFromTheEngine
  <2>2. m.op = "start" /\ c \in streams[m.stream].by
    BY <2>1, RejectionsAreRefusals
  <2>3. m.stream \in Stream /\ c \in present /\ ~Holds(c, m.stream)
    BY <2>1 DEF IInv, Types, Message, Threads
  <2>4. ~Underway(c, m.stream)
    BY <2>1, <2>2 DEF Underway
  <2> QED
    BY <2>1, <2>2, <2>3, <2>4 DEF IInv, Accounted
<1>2. Spec => [][Next]_vars
  BY DEF Spec
<1> HIDE DEF Others
<1>3. IInv /\ [Next]_vars => [Others]_vars
  BY <1>1
<1>4. Spec => [][Others]_vars
  BY <1>2, <1>3, Invariant, PTL
<1> QED
  BY <1>4 DEF RejectedForOthers, Others

==========================================================================
