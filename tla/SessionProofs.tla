--------------------------- MODULE SessionProofs ---------------------------
(***************************************************************************)
(* Theorems about Session, for any number of sessions, subscribers,        *)
(* clients, registrations and requests.                                    *)
(***************************************************************************)
EXTENDS Session, SequenceTheorems, TLAPS

---------------------------------------------------------------------------
(* Types.                                                                  *)

LEMMA ReleaseType ==
  ASSUME TypeOK, NEW d \in Holder
  PROVE  /\ Release(d, declared) \in [Reg -> Client \cup {"status", None}]
         /\ \A r \in Reg : Release(d, declared)[r] =
              IF r = holds[d] THEN None ELSE declared[r]
<1>1. /\ holds[d] \in 0 .. issued /\ issued \in Nat /\ issued <= MaxIssued
      /\ MaxIssued \in Nat
      /\ declared \in [Reg -> Client \cup {"status", None}]
  BY ConstantsOK DEF TypeOK, ConstantsOK
<1>2. CASE holds[d] = 0
  BY <1>1, <1>2 DEF Release, Reg
<1>3. CASE holds[d] # 0
  BY <1>1, <1>3 DEF Release, Reg
<1> QED
  BY <1>2, <1>3

\* A request is recorded at the end of the history.
LEMMA MakeType ==
  ASSUME TypeOK, NEW s \in Session, NEW q \in Request,
         NEW wire \in {"unsent", "flying"},
         NEW outcome \in {"waiting", "ok", "encode_failed", "transport_failed"},
         Make(s, q, wire, outcome)
  PROVE  /\ calls' \in Seq(Call)
         /\ DOMAIN calls' = DOMAIN calls \cup {Len(calls) + 1}
         /\ \A n \in DOMAIN calls : calls'[n] = calls[n]
         /\ calls'[Len(calls) + 1] =
              [client |-> id[s], request |-> q, present |-> Present(id[s]),
               wire |-> wire, reply |-> None, outcome |-> outcome]
<1> DEFINE c == [client |-> id[s], request |-> q, present |-> Present(id[s]),
                 wire |-> wire, reply |-> None, outcome |-> outcome]
<1>1. Present(id[s]) \in BOOLEAN
  BY DEF Present
<1>2. c \in Call
  BY <1>1 DEF Call, TypeOK
<1>3. calls' = Append(calls, c)
  BY DEF Make
<1> HIDE DEF c
<1>4. calls \in Seq(Call)
  BY DEF TypeOK
<1>5. /\ calls' \in Seq(Call)
      /\ DOMAIN calls' = DOMAIN calls \cup {Len(calls) + 1}
      /\ \A n \in DOMAIN calls : calls'[n] = calls[n]
      /\ calls'[Len(calls) + 1] = c
  BY <1>2, <1>3, <1>4, AppendProperties, LenProperties
<1> QED
  BY <1>5 DEF c

\* What becomes of a request changes one entry of the history.
LEMMA UpdateType ==
  ASSUME TypeOK, NEW n \in DOMAIN calls, NEW c \in Call,
         calls' = [calls EXCEPT ![n] = c]
  PROVE  /\ calls' \in Seq(Call)
         /\ DOMAIN calls' = DOMAIN calls
         /\ \A m \in DOMAIN calls : calls'[m] = IF m = n THEN c ELSE calls[m]
<1>1. calls \in Seq(Call) /\ DOMAIN calls = 1 .. Len(calls)
  BY LenProperties DEF TypeOK
<1> QED
  BY <1>1, ExceptSeq

\* The steps of a request that has been made, entry by entry.
LEMMA ProgressType ==
  ASSUME TypeOK, NEW n \in DOMAIN calls, Travel(n) \/ Return(n)
  PROVE  \E c \in Call :
           /\ calls' = [calls EXCEPT ![n] = c]
           /\ c.request = calls[n].request /\ c.present = calls[n].present
           /\ \/ /\ calls[n].wire = "flying"
                 /\ c.wire \in {"lost", IF EngineServes(c.request, Mode(c.request))
                                        THEN "served" ELSE "ignored"}
                 /\ c.reply = calls[n].reply /\ c.outcome = calls[n].outcome
              \/ /\ c.wire = calls[n].wire
                 /\ c.outcome = "ok" => /\ c.wire = "served"
                                        /\ c.reply = ReplyOf(c.request)
<1> DEFINE e == calls[n]
<1>1. e \in Call
  BY LenProperties, ElementOfSeq DEF TypeOK
<1>2. ASSUME NEW w \in {"lost", IF EngineServes(e.request, Mode(e.request))
                                THEN "served" ELSE "ignored"},
             e.wire = "flying", calls' = [calls EXCEPT ![n].wire = w]
      PROVE  \E c \in Call :
               /\ calls' = [calls EXCEPT ![n] = c]
               /\ c.request = e.request /\ c.present = e.present
               /\ c.wire = w /\ c.reply = e.reply /\ c.outcome = e.outcome
  <2> DEFINE c == [e EXCEPT !.wire = w]
  <2>1. c \in Call /\ c.request = e.request /\ c.present = e.present
        /\ c.wire = w /\ c.reply = e.reply /\ c.outcome = e.outcome
    BY <1>1, <1>2 DEF Call
  <2>2. calls' = [calls EXCEPT ![n] = c]
    BY <1>2
  <2> QED
    BY <2>1, <2>2
<1>3. ASSUME NEW type \in ReplyType, NEW decodes \in BOOLEAN, Answer(n, type, decodes)
      PROVE  \E c \in Call :
               /\ calls' = [calls EXCEPT ![n] = c]
               /\ c.request = e.request /\ c.present = e.present
               /\ c.wire = e.wire
               /\ c.outcome = "ok" => c.wire = "served" /\ c.reply = ReplyOf(c.request)
  <2> DEFINE o == Check(e.request, type, decodes)
             c == [e EXCEPT !.reply = type, !.outcome = o]
  <2>1. /\ o \in {"ok", "wrong_declared_type", "decode_failed"}
        /\ o = "ok" => type = ReplyOf(e.request)
    BY <1>3 DEF Check
  <2>2. e.wire = "served"
    BY <1>3 DEF Answer
  <2>3. calls' = [calls EXCEPT ![n] = c]
    BY <1>3 DEF Answer
  <2> HIDE DEF o
  <2>4. c \in Call /\ c.request = e.request /\ c.present = e.present
        /\ c.wire = e.wire /\ c.reply = type /\ c.outcome = o
    BY <1>1, <2>1 DEF Call
  <2> HIDE DEF c
  <2> QED
    BY <2>1, <2>2, <2>3, <2>4
<1>4. ASSUME NEW why \in {"timeout", "transport_failed"},
             calls' = [calls EXCEPT ![n].outcome = why]
      PROVE  \E c \in Call :
               /\ calls' = [calls EXCEPT ![n] = c]
               /\ c.request = e.request /\ c.present = e.present
               /\ c.wire = e.wire /\ c.outcome # "ok"
  <2> DEFINE c == [e EXCEPT !.outcome = why]
  <2>1. c \in Call /\ c.request = e.request /\ c.present = e.present
        /\ c.wire = e.wire /\ c.outcome # "ok"
    BY <1>1, <1>4 DEF Call
  <2>2. calls' = [calls EXCEPT ![n] = c]
    BY <1>4
  <2> QED
    BY <2>1, <2>2
<1> HIDE DEF e
<1>5. CASE Travel(n)
  BY <1>2, <1>5 DEF Travel, e
<1>6. CASE Return(n)
  BY <1>3, <1>4, <1>6 DEF Return, GiveUp, e
<1> QED
  BY <1>5, <1>6

---------------------------------------------------------------------------
(* Who holds what.                                                         *)

\* The registrations the transport has not issued yet are nobody's.
LEMMA Fresh ==
  ASSUME TypeOK, HeldExactlyOnce, issued < MaxIssued
  PROVE  /\ issued + 1 \in Reg /\ issued + 1 \in 0 .. issued + 1
         /\ issued + 1 \in 0 .. MaxIssued /\ issued + 1 # 0
         /\ declared[issued + 1] = None
         /\ \A d \in Holder : holds[d] # issued + 1
<1>1. issued \in Nat /\ MaxIssued \in Nat
  BY ConstantsOK DEF TypeOK, ConstantsOK
<1>2. issued + 1 \in Reg /\ \A d \in Holder : holds[d] # issued + 1
  BY <1>1 DEF TypeOK, Reg
<1> QED
  BY <1>1, <1>2 DEF HeldExactlyOnce

Owned == TypeOK /\ HeldExactlyOnce /\ PresentUnderItsId

\* A Declaration gives up its registration; its session, if it is one, its id.
LEMMA DropOwned ==
  ASSUME Owned, NEW d \in Holder,
         declared' = Release(d, declared), holds' = [holds EXCEPT ![d] = 0],
         UNCHANGED <<issued, calls>>, exists' \subseteq Session,
         id' \in [Session -> Client \cup {None}],
         \A s \in Session : id'[s] = IF s = d THEN None ELSE id[s]
  PROVE  Owned'
<1>1. TypeOK /\ HeldExactlyOnce /\ PresentUnderItsId
  BY DEF Owned
<1>2. /\ declared' \in [Reg -> Client \cup {"status", None}]
      /\ \A r \in Reg : declared'[r] = IF r = holds[d] THEN None ELSE declared[r]
  BY <1>1, ReleaseType
<1>3. /\ holds' \in [Holder -> 0 .. issued]
      /\ \A e \in Holder : holds'[e] = IF e = d THEN 0 ELSE holds[e]
  BY <1>1 DEF TypeOK
<1>4. \A e \in Holder : holds[e] # 0 => holds[e] \in Reg
  BY <1>1, ConstantsOK DEF TypeOK, Reg, ConstantsOK
<1>5. TypeOK'
  BY <1>1, <1>2, <1>3 DEF TypeOK
<1>6. HeldExactlyOnce'
  BY <1>1, <1>2, <1>3, <1>4 DEF HeldExactlyOnce
<1>7. PresentUnderItsId'
  BY <1>1, <1>2, <1>3, <1>4 DEF PresentUnderItsId, HeldExactlyOnce, Holder
<1> QED
  BY <1>5, <1>6, <1>7 DEF Owned

\* A registration changes hands, over the one its receiver may have; a
\* session that loses it loses its id with it.
LEMMA HandOwned ==
  ASSUME Owned, NEW dst \in Holder, NEW src \in Holder, dst # src,
         declared' = Release(dst, declared), MoveDeclaration(dst, src),
         UNCHANGED <<issued, calls>>, exists' \subseteq Session,
         id' \in [Session -> Client \cup {None}],
         \A s \in Session : id'[s] = IF s = dst THEN (IF src \in Session THEN id[src] ELSE None)
                                     ELSE IF s = src THEN None ELSE id[s]
  PROVE  Owned'
<1>1. TypeOK /\ HeldExactlyOnce /\ PresentUnderItsId
  BY DEF Owned
<1>2. /\ declared' \in [Reg -> Client \cup {"status", None}]
      /\ \A r \in Reg : declared'[r] = IF r = holds[dst] THEN None ELSE declared[r]
  BY <1>1, ReleaseType
<1>3. /\ holds' \in [Holder -> 0 .. issued]
      /\ \A e \in Holder : holds'[e] = IF e = dst THEN holds[src]
                                       ELSE IF e = src THEN 0 ELSE holds[e]
  BY <1>1 DEF TypeOK, MoveDeclaration
<1>4. \A e \in Holder : holds[e] # 0 => holds[e] \in Reg
  BY <1>1, ConstantsOK DEF TypeOK, Reg, ConstantsOK
<1>5. TypeOK'
  BY <1>1, <1>2, <1>3 DEF TypeOK
<1>6. HeldExactlyOnce'
  <2>1. \A e \in Holder : holds'[e] # 0 => declared'[holds'[e]] # None
    BY <1>1, <1>2, <1>3, <1>4 DEF HeldExactlyOnce
  <2>2. \A r \in Reg : declared'[r] # None => \E e \in Holder : holds'[e] = r
    BY <1>1, <1>2, <1>3, <1>4 DEF HeldExactlyOnce
  <2>3. \A e, f \in Holder : holds'[e] # 0 /\ holds'[e] = holds'[f] => e = f
    BY <1>1, <1>3 DEF HeldExactlyOnce
  <2> QED
    BY <2>1, <2>2, <2>3 DEF HeldExactlyOnce
<1>7. PresentUnderItsId'
  BY <1>1, <1>2, <1>3, <1>4 DEF PresentUnderItsId, HeldExactlyOnce, Holder
<1> QED
  BY <1>5, <1>6, <1>7 DEF Owned

\* A new registration goes to a Declaration, over the one it may have.
LEMMA DeclareOwned ==
  ASSUME Owned, NEW d \in Holder, NEW what \in Client \cup {"status"},
         Declare(d, what), declared' = [Release(d, declared) EXCEPT ![issued + 1] = what],
         UNCHANGED calls, exists' \subseteq Session,
         id' \in [Session -> Client \cup {None}],
         \A s \in Session : id'[s] = IF s = d THEN what ELSE id[s]
  PROVE  Owned'
<1>1. TypeOK /\ HeldExactlyOnce /\ PresentUnderItsId
  BY DEF Owned
<1> DEFINE n == issued + 1
<1>2. /\ n \in Reg /\ n \in 0 .. n /\ n \in 0 .. MaxIssued /\ n # 0
      /\ \A e \in Holder : holds[e] # n
      /\ issued' = n
  BY <1>1, Fresh DEF Declare
<1>3. /\ declared' \in [Reg -> Client \cup {"status", None}]
      /\ \A r \in Reg : declared'[r] = IF r = n THEN what
                                       ELSE IF r = holds[d] THEN None ELSE declared[r]
  BY <1>1, <1>2, ReleaseType
<1>4. \A e \in Holder : holds'[e] = IF e = d THEN n ELSE holds[e]
  BY <1>1 DEF TypeOK, Declare
<1>5. holds' \in [Holder -> 0 .. n]
  <2>1. \A e \in Holder : holds[e] \in 0 .. n
    BY <1>1 DEF TypeOK
  <2> QED
    BY <1>1, <1>2, <2>1 DEF TypeOK, Declare
<1>6. \A e \in Holder : holds[e] # 0 => holds[e] \in Reg
  BY <1>1, ConstantsOK DEF TypeOK, Reg, ConstantsOK
<1>7. what # None
  BY ConstantsOK DEF ConstantsOK
<1> HIDE DEF n
<1>8. TypeOK'
  BY <1>1, <1>2, <1>3, <1>5 DEF TypeOK
<1>9. HeldExactlyOnce'
  <2>1. ASSUME NEW e \in Holder, holds'[e] # 0
        PROVE  declared'[holds'[e]] # None
    <3>1. CASE e = d
      BY <1>2, <1>3, <1>4, <1>7, <3>1
    <3>2. CASE e # d
      <4>1. holds'[e] = holds[e] /\ holds[e] \in Reg /\ holds[e] # 0
        BY <1>4, <1>6, <2>1, <3>2
      <4>2. holds[e] # n /\ holds[e] # holds[d] /\ declared[holds[e]] # None
        BY <1>1, <1>2, <3>2, <4>1 DEF HeldExactlyOnce
      <4> QED
        BY <1>3, <4>1, <4>2
    <3> QED
      BY <3>1, <3>2
  <2>2. ASSUME NEW r \in Reg, declared'[r] # None
        PROVE  \E e \in Holder : holds'[e] = r
    <3>1. CASE r = n
      BY <1>4, <3>1
    <3>2. CASE r # n
      <4>1. r # holds[d] /\ declared[r] # None
        BY <1>3, <2>2, <3>2
      <4>2. PICK e \in Holder : holds[e] = r
        BY <1>1, <2>2, <4>1 DEF HeldExactlyOnce
      <4> QED
        BY <1>4, <4>1, <4>2
    <3> QED
      BY <3>1, <3>2
  <2>3. \A e, f \in Holder : holds'[e] # 0 /\ holds'[e] = holds'[f] => e = f
    BY <1>1, <1>2, <1>4 DEF HeldExactlyOnce
  <2> QED
    BY <2>1, <2>2, <2>3 DEF HeldExactlyOnce
<1>10. ASSUME NEW s \in Session, id'[s] # None
       PROVE  holds'[s] # 0 /\ declared'[holds'[s]] = id'[s]
  <2>1. s \in Holder
    BY DEF Holder
  <2>2. CASE s = d
    BY <1>2, <1>3, <1>4, <2>1, <2>2
  <2>3. CASE s # d
    <3>1. id'[s] = id[s] /\ holds'[s] = holds[s]
      BY <1>4, <2>1, <2>3
    <3>2. holds[s] # 0 /\ declared[holds[s]] = id[s] /\ holds[s] \in Reg
      BY <1>1, <1>6, <1>10, <2>1, <3>1 DEF PresentUnderItsId
    <3>3. holds[s] # holds[d] /\ holds[s] # n
      BY <1>1, <1>2, <2>1, <2>3, <3>2 DEF HeldExactlyOnce
    <3> QED
      BY <1>3, <3>1, <3>2, <3>3
  <2> QED
    BY <2>2, <2>3
<1> QED
  BY <1>8, <1>9, <1>10 DEF Owned, PresentUnderItsId

LEMMA OwnedInvariant == Spec => []Owned
<1>1. Init => Owned
  <2>1. 0 \in 0 .. MaxIssued /\ 0 \in 0 .. 0
    BY ConstantsOK DEF ConstantsOK
  <2> QED
    BY <2>1, EmptySeq DEF Init, Owned, TypeOK, HeldExactlyOnce, PresentUnderItsId
<1>2. Owned /\ [Next]_vars => Owned'
  <2> SUFFICES ASSUME Owned, [Next]_vars PROVE Owned'
    OBVIOUS
  <2>0. TypeOK /\ Session \subseteq Holder /\ Subscriber \subseteq Holder
        /\ \A d \in Subscriber : d \notin Session
    BY ConstantsOK DEF Owned, Holder, ConstantsOK
  <2>1. ASSUME UNCHANGED objects, calls' \in Seq(Call)
        PROVE  Owned'
    BY <2>1 DEF Owned, objects, TypeOK, HeldExactlyOnce, PresentUnderItsId
  <2>2. ASSUME NEW d \in Subscriber, Subscribe(d) PROVE Owned'
    <3>1. Release(d, declared) = declared
      BY <2>2 DEF Subscribe, Release
    <3> QED
      BY <2>0, <2>2, <3>1, DeclareOwned DEF Subscribe, TypeOK
  <2>3. ASSUME NEW d \in Subscriber, Undeclare(d) PROVE Owned'
    BY <2>0, <2>3, DropOwned DEF Undeclare, TypeOK
  <2>4. ASSUME NEW dst \in Subscriber, NEW src \in Subscriber,
               AssignDeclaration(dst, src)
        PROVE  Owned'
    <3>1. CASE dst = src
      BY <2>0, <2>1, <2>4, <3>1 DEF AssignDeclaration, objects, TypeOK
    <3>2. CASE dst # src
      BY <2>0, <2>4, <3>2, HandOwned DEF AssignDeclaration, TypeOK
    <3> QED
      BY <3>1, <3>2
  <2>5. ASSUME NEW s \in Session, NEW c \in Client, Open(s, c) PROVE Owned'
    BY <2>0, <2>5, DeclareOwned DEF Open, TypeOK
  <2>6. ASSUME NEW dst \in Session, NEW src \in Session, MoveSession(dst, src)
        PROVE  Owned'
    BY <2>0, <2>6, HandOwned DEF MoveSession, TypeOK
  <2>7. ASSUME NEW s \in Session, Close(s) PROVE Owned'
    BY <2>0, <2>7, DropOwned DEF Close, TypeOK
  <2>8. ASSUME NEW s \in Session, NEW q \in Request,
               EncodeFails(s, q) \/ PublishRequest(s, q) \/ QueryRequest(s, q)
        PROVE  Owned'
    <3>1. PICK wire \in {"unsent", "flying"},
               outcome \in {"waiting", "ok", "encode_failed", "transport_failed"} :
                 Make(s, q, wire, outcome)
      BY <2>8 DEF EncodeFails, PublishRequest, QueryRequest
    <3> QED
      BY <2>0, <2>1, <3>1, MakeType DEF Make
  <2>9. ASSUME NEW n \in DOMAIN calls, Travel(n) \/ Return(n) PROVE Owned'
    <3>1. UNCHANGED objects
      BY <2>9 DEF Travel, Return, Answer, GiveUp
    <3>2. calls' \in Seq(Call)
      BY <2>0, <2>9, ProgressType, UpdateType
    <3> QED
      BY <2>1, <3>1, <3>2
  <2>10. CASE UNCHANGED vars
    BY <2>0, <2>1, <2>10 DEF vars, objects, TypeOK
  <2> QED
    BY <2>2, <2>3, <2>4, <2>5, <2>6, <2>7, <2>8, <2>9, <2>10 DEF Next
<1> QED
  BY <1>1, <1>2, PTL DEF Spec

(* Each registration in force has one owner, and every owner's is in       *)
(* force, through every move, self-assignment, undeclare and destructor of *)
(* any number of Declarations (transport.h).                               *)
THEOREM OneOwnerEach == Spec => []HeldExactlyOnce
BY OwnedInvariant, PTL DEF Owned

(* Every variable has a value of its type: what a Declaration or a session *)
(* holds is a registration that was issued, and each request is somewhere  *)
(* on its way (transport.h, session.h).                                    *)
THEOREM SessionTypes == Spec => []TypeOK
BY OwnedInvariant, PTL DEF Owned

(* A session that has its client id holds that client's token in force,    *)
(* after every defaulted move and every open over a live session           *)
(* (session.h).                                                            *)
THEOREM SessionsArePresent == Spec => []PresentUnderItsId
BY OwnedInvariant, PTL DEF Owned

(* A client whose session is replaced by a new one of its own is present   *)
(* before and after, and so is never seen to depart (open).                *)
THEOREM PresenceNeverLapses == Spec => ReopeningKeepsPresence
<1>1. ASSUME Owned, Owned', NEW s \in Session, id[s] # None, id'[s] = id[s]
      PROVE  \E r \in Reg : declared'[r] = id[s]
  <2>1. s \in Holder /\ holds'[s] # 0 /\ declared'[holds'[s]] = id[s]
    BY <1>1 DEF Owned, PresentUnderItsId, Holder
  <2>2. holds'[s] \in 0 .. issued' /\ issued' \in 0 .. MaxIssued
    BY <1>1, <2>1 DEF Owned, TypeOK
  <2>3. holds'[s] \in Reg
    BY <2>1, <2>2, ConstantsOK DEF Reg, ConstantsOK
  <2> QED
    BY <2>1, <2>3
<1>2. Owned /\ Owned' /\ [Next]_vars
        => [\A s \in Session :
              s \in exists /\ s \in exists' /\ id[s] # None /\ id'[s] = id[s] =>
                \E r \in Reg : declared'[r] = id[s]]_vars
  BY <1>1
<1> QED
  BY <1>2, OwnedInvariant, PTL DEF Spec, ReopeningKeepsPresence

---------------------------------------------------------------------------
(* What becomes of requests.                                               *)

Right(c) ==
  /\ c.wire # "ignored"
  /\ c.outcome = "ok" /\ Mode(c.request) = "query" =>
       c.wire = "served" /\ c.reply = ReplyOf(c.request)
  /\ "use_after_move" \notin Permit /\ c.wire # "unsent" => c.present

AllRight == \A n \in DOMAIN calls : Right(calls[n])

\* The engine serves every key in the way the table has it sent.
LEMMA TableAgrees ==
  ASSUME NEW q \in Request
  PROVE  EngineServes(q, Mode(q))
<1>1. q \in Mutation \cup StreamRequest \cup Read \cup {"leave"}
  BY ConstantsOK DEF ConstantsOK
<1> QED
  BY <1>1 DEF EngineServes, Mode, Mutation, StreamRequest, Read

LEMMA MakeRight ==
  ASSUME Owned, AllRight, NEW s \in Session, NEW q \in Request,
         NEW wire \in {"unsent", "flying"},
         NEW outcome \in {"waiting", "ok", "encode_failed", "transport_failed"},
         outcome = "ok" => Mode(q) = "publish",
         Make(s, q, wire, outcome)
  PROVE  AllRight'
<1> DEFINE m == Len(calls) + 1
           c == [client |-> id[s], request |-> q, present |-> Present(id[s]),
                 wire |-> wire, reply |-> None, outcome |-> outcome]
<1>1. /\ DOMAIN calls' = DOMAIN calls \cup {m}
      /\ \A n \in DOMAIN calls : calls'[n] = calls[n]
      /\ calls'[m] = c
  BY MakeType DEF Owned
<1>2. "use_after_move" \notin Permit => Present(id[s])
  <2>1. SUFFICES ASSUME "use_after_move" \notin Permit
                 PROVE  Present(id[s])
    OBVIOUS
  <2>2. id[s] # None /\ s \in Holder
    BY <2>1 DEF Make, Holder
  <2>3. holds[s] # 0 /\ declared[holds[s]] = id[s]
    BY <2>2 DEF Owned, PresentUnderItsId
  <2>4. holds[s] \in Reg
    BY <2>2, <2>3, ConstantsOK DEF Owned, TypeOK, Reg, ConstantsOK
  <2> QED
    BY <2>2, <2>3, <2>4 DEF Present
<1>3. Right(c)
  BY <1>2 DEF Right
<1> HIDE DEF m, c
<1> QED
  BY <1>1, <1>3 DEF AllRight

LEMMA ProgressRight ==
  ASSUME TypeOK, AllRight, NEW n \in DOMAIN calls, Travel(n) \/ Return(n)
  PROVE  AllRight'
<1>1. PICK c \in Call :
        /\ calls' = [calls EXCEPT ![n] = c]
        /\ c.request = calls[n].request /\ c.present = calls[n].present
        /\ \/ /\ calls[n].wire = "flying"
              /\ c.wire \in {"lost", IF EngineServes(c.request, Mode(c.request))
                                     THEN "served" ELSE "ignored"}
              /\ c.reply = calls[n].reply /\ c.outcome = calls[n].outcome
           \/ /\ c.wire = calls[n].wire
              /\ c.outcome = "ok" => /\ c.wire = "served"
                                     /\ c.reply = ReplyOf(c.request)
  BY ProgressType
<1>2. EngineServes(c.request, Mode(c.request))
  BY TableAgrees DEF Call
<1>3. Right(calls[n])
  BY DEF AllRight
<1>4. Right(c)
  BY <1>1, <1>2, <1>3 DEF Right
<1>5. /\ DOMAIN calls' = DOMAIN calls
      /\ \A m \in DOMAIN calls : calls'[m] = IF m = n THEN c ELSE calls[m]
  BY <1>1, UpdateType
<1> QED
  BY <1>4, <1>5 DEF AllRight

LEMMA AllRightInvariant == Spec => []AllRight
<1>1. Init => AllRight
  BY EmptySeq DEF Init, AllRight
<1>2. Owned /\ AllRight /\ [Next]_vars => AllRight'
  <2> SUFFICES ASSUME Owned, AllRight, [Next]_vars PROVE AllRight'
    OBVIOUS
  <2>1. CASE UNCHANGED calls
    BY <2>1 DEF AllRight
  <2>2. ASSUME NEW s \in Session, NEW q \in Request,
               EncodeFails(s, q) \/ PublishRequest(s, q) \/ QueryRequest(s, q)
        PROVE  AllRight'
    <3>1. PICK wire \in {"unsent", "flying"},
               outcome \in {"waiting", "ok", "encode_failed", "transport_failed"} :
                 /\ Make(s, q, wire, outcome)
                 /\ outcome = "ok" => Mode(q) = "publish"
      BY <2>2 DEF EncodeFails, PublishRequest, QueryRequest
    <3> QED
      BY <3>1, MakeRight
  <2>3. ASSUME NEW n \in DOMAIN calls, Travel(n) \/ Return(n) PROVE AllRight'
    BY <2>3, ProgressRight DEF Owned
  <2>4. CASE \/ \E d \in Subscriber : Subscribe(d) \/ Undeclare(d)
             \/ \E dst, src \in Subscriber : AssignDeclaration(dst, src)
             \/ \E s \in Session, c \in Client : Open(s, c)
             \/ \E dst, src \in Session : MoveSession(dst, src)
             \/ \E s \in Session : Close(s)
             \/ UNCHANGED vars
    BY <2>1, <2>4
       DEF Subscribe, Undeclare, AssignDeclaration, Open, MoveSession, Close, vars
  <2> QED
    BY <2>2, <2>3, <2>4 DEF Next
<1> QED
  BY <1>1, <1>2, OwnedInvariant, PTL DEF Spec

(* As long as no moved-from session is used, every request that is sent is *)
(* sent by a client whose token is in force (session.h, the comment on     *)
(* open).                                                                  *)
THEOREM EverybodyIsSeen ==
  Spec => ("use_after_move" \notin Permit => []NeverSpeaksUnseen)
<1> SUFFICES ASSUME "use_after_move" \notin Permit
             PROVE  Spec => []NeverSpeaksUnseen
  OBVIOUS
<1>1. AllRight => NeverSpeaksUnseen
  BY DEF AllRight, Right, NeverSpeaksUnseen
<1> QED
  BY <1>1, AllRightInvariant, PTL

(* Every request of the RequestKey table is sent in the way the engine     *)
(* serves its key (session.h, publish_request and query_request).          *)
THEOREM EngineAnswersAll == Spec => []NothingIsIgnored
<1>1. AllRight => NothingIsIgnored
  BY DEF AllRight, Right, NothingIsIgnored
<1> QED
  BY <1>1, AllRightInvariant, PTL

(* A query succeeds with a reply of the type its request is answered with, *)
(* and with nothing else, whatever types peers declare (query_request).    *)
THEOREM RepliesAreRight == Spec => []OkIsTheRightReply
<1>1. AllRight => OkIsTheRightReply
  BY DEF AllRight, Right, OkIsTheRightReply
<1> QED
  BY <1>1, AllRightInvariant, PTL

============================================================================
