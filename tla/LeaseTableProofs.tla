-------------------------- MODULE LeaseTableProofs --------------------------
(***************************************************************************)
(* Theorems about LeaseTable, for every value of its constants: the books  *)
(* a process keeps, then the engine's side of them, and that LeaseTable    *)
(* implements StreamClaims.                                                *)
(***************************************************************************)
EXTENDS LeaseTable, FiniteSetTheorems, SequenceTheorems, TLAPS

---------------------------------------------------------------------------
(* Maps, and the stack of retirements in progress.                         *)

\* Put and Without are functions with the domains their names promise.
LEMMA PutType ==
  ASSUME NEW K, NEW V, NEW f, DOMAIN f \subseteq K, f \in [DOMAIN f -> V],
         NEW k \in K, NEW v \in V
  PROVE  /\ DOMAIN Put(f, k, v) = DOMAIN f \cup {k}
         /\ DOMAIN Put(f, k, v) \subseteq K
         /\ Put(f, k, v) \in [DOMAIN Put(f, k, v) -> V]
BY DEF Put

LEMMA WithoutType ==
  ASSUME NEW K, NEW V, NEW f, DOMAIN f \subseteq K, f \in [DOMAIN f -> V],
         NEW S
  PROVE  /\ DOMAIN Without(f, S) = DOMAIN f \ S
         /\ DOMAIN Without(f, S) \subseteq K
         /\ Without(f, S) \in [DOMAIN Without(f, S) -> V]
BY DEF Without

\* SendStop marks the innermost frame and leaves the others as they were.
LEMMA MarkTop ==
  ASSUME NEW s \in Seq(Frame), s # <<>>
  PROVE  LET t == [s EXCEPT ![Len(s)].sent = TRUE]
         IN  /\ t \in Seq(Frame)
             /\ Len(t) = Len(s)
             /\ DOMAIN t = DOMAIN s
             /\ \A i \in DOMAIN s : /\ t[i].handle = s[i].handle
                                    /\ t[i].dst = s[i].dst
                                    /\ t[i].src = s[i].src
                                    /\ t[i].sent = (s[i].sent \/ i = Len(s))
<1> DEFINE e == [s[Len(s)] EXCEPT !.sent = TRUE]
<1>1. Len(s) \in 1 .. Len(s) /\ DOMAIN s = 1 .. Len(s)
  BY EmptySeq, LenProperties
<1>2. s[Len(s)] \in Frame
  BY <1>1, ElementOfSeq
<1>3. e \in Frame
  BY <1>2 DEF Frame
<1>4. [s EXCEPT ![Len(s)] = e] \in Seq(Frame)
      /\ Len([s EXCEPT ![Len(s)] = e]) = Len(s)
      /\ \A j \in 1 .. Len(s) :
           [s EXCEPT ![Len(s)] = e][j] = IF j = Len(s) THEN e ELSE s[j]
  BY <1>1, <1>3, ExceptSeq
<1>5. [s EXCEPT ![Len(s)].sent = TRUE] = [s EXCEPT ![Len(s)] = e]
  OBVIOUS
<1>6. DOMAIN [s EXCEPT ![Len(s)] = e] = DOMAIN s
  OBVIOUS
<1>7. \A i \in DOMAIN s : s[i] \in Frame
  BY <1>1, ElementOfSeq
<1> QED
  BY <1>1, <1>2, <1>4, <1>5, <1>6, <1>7 DEF Frame

\* Retire adds one frame on top.
LEMMA PushFrame ==
  ASSUME NEW s \in Seq(Frame), NEW f \in Frame
  PROVE  /\ Append(s, f) \in Seq(Frame)
         /\ Len(Append(s, f)) = Len(s) + 1
         /\ DOMAIN Append(s, f) = DOMAIN s \cup {Len(s) + 1}
         /\ Len(s) + 1 \notin DOMAIN s
         /\ \A i \in DOMAIN s : Append(s, f)[i] = s[i]
         /\ Append(s, f)[Len(s) + 1] = f
BY AppendProperties, LenProperties

\* EndStop takes the innermost frame off.
LEMMA PopFrame ==
  ASSUME NEW s \in Seq(Frame), s # <<>>
  PROVE  LET t == SubSeq(s, 1, Len(s) - 1)
         IN  /\ t \in Seq(Frame)
             /\ Len(s) \in DOMAIN s
             /\ Len(t) = Len(s) - 1
             /\ DOMAIN t = DOMAIN s \ {Len(s)}
             /\ \A i \in DOMAIN t : t[i] = s[i]
<1>1. Len(s) \in Nat \ {0} /\ DOMAIN s = 1 .. Len(s)
  BY EmptySeq, LenProperties
<1>2. \A i \in 1 .. Len(s) - 1 : s[i] \in Frame
  BY <1>1, ElementOfSeq
<1> DEFINE t == SubSeq(s, 1, Len(s) - 1)
<1>3. /\ t \in Seq(Frame)
      /\ Len(t) = Len(s) - 1
      /\ \A i \in 1 .. Len(s) - 1 : t[i] = s[i]
  <2>1. /\ t \in Seq(Frame)
        /\ Len(t) = IF 1 <= Len(s) - 1 THEN (Len(s) - 1) - 1 + 1 ELSE 0
        /\ \A i \in 1 .. (Len(s) - 1) - 1 + 1 : t[i] = s[1 + i - 1]
    BY <1>1, <1>2, SubSeqProperties
  <2> QED
    BY <1>1, <2>1
<1>4. DOMAIN t = 1 .. Len(s) - 1
  BY <1>3, LenProperties
<1> QED
  BY <1>1, <1>3, <1>4

---------------------------------------------------------------------------
(* Types.                                                                  *)

\* What Retire does to the maps and the stack.
LEMMA RetireType ==
  ASSUME TypeOK, NEW h \in Held,
         NEW dst \in Lease \cup {None}, NEW src \in Lease \cup {None},
         dst = None <=> src = None, Retire(h, dst, src)
  PROVE  /\ Held' = Held \ {h}
         /\ records' \in [Held' -> Record]
         /\ \A x \in Held' : records'[x] = records[x]
         /\ DOMAIN memo' = DOMAIN memo \ Aliases(h)
         /\ memo' \in [DOMAIN memo' -> Handle]
         /\ \A r \in DOMAIN memo' : memo'[r] = memo[r]
         /\ stops' \in Seq(Frame)
         /\ closing' \subseteq Handle
<1>1. [handle |-> h, sent |-> FALSE, dst |-> dst, src |-> src] \in Frame
  BY DEF TypeOK, Frame
<1>2. stops' \in Seq(Frame)
  BY <1>1, PushFrame DEF Retire, TypeOK
<1> QED
  BY <1>2 DEF Retire, TypeOK, Held, Without

\* Counting up and down changes one count and no handle.
LEMMA CountType ==
  ASSUME TypeOK, NEW h \in Held
  PROVE  /\ records[h] \in Record
         /\ CountUp(h) =>
              /\ Held' = Held
              /\ records' \in [Held -> Record]
              /\ \A x \in Held : records'[x].terms = records[x].terms
              /\ \A x \in Held \ {h} : records'[x] = records[x]
              /\ records'[h].count = records[h].count + 1
         /\ records[h].count > 1 /\ CountDown(h) =>
              /\ Held' = Held
              /\ records' \in [Held -> Record]
              /\ \A x \in Held : records'[x].terms = records[x].terms
              /\ \A x \in Held \ {h} : records'[x] = records[x]
              /\ records'[h].count = records[h].count - 1
<1> DEFINE up == [records[h] EXCEPT !.count = @ + 1]
           down == [records[h] EXCEPT !.count = @ - 1]
<1>1. records[h] \in Record /\ records \in [Held -> Record]
  BY DEF TypeOK
<1>2. /\ up \in Record /\ up.terms = records[h].terms
      /\ up.count = records[h].count + 1
  BY <1>1 DEF Record
<1>3. records[h].count > 1 =>
        /\ down \in Record /\ down.terms = records[h].terms
        /\ down.count = records[h].count - 1
  BY <1>1 DEF Record
<1>4. CountUp(h) => records' = [records EXCEPT ![h] = up]
  BY DEF CountUp
<1>5. CountDown(h) => records' = [records EXCEPT ![h] = down]
  BY DEF CountDown
<1>6. ASSUME CountUp(h)
      PROVE  /\ Held' = Held
             /\ records' \in [Held -> Record]
             /\ \A x \in Held \ {h} : records'[x] = records[x]
             /\ records'[h] = up
  <2> HIDE DEF up
  <2> QED
    BY <1>1, <1>2, <1>4, <1>6 DEF Held
<1>7. ASSUME records[h].count > 1, CountDown(h)
      PROVE  /\ Held' = Held
             /\ records' \in [Held -> Record]
             /\ \A x \in Held \ {h} : records'[x] = records[x]
             /\ records'[h] = down
  <2> HIDE DEF down
  <2> QED
    BY <1>1, <1>3, <1>5, <1>7 DEF Held
<1> HIDE DEF up, down
<1> QED
  BY <1>1, <1>2, <1>3, <1>6, <1>7

\* The claims that end with a record leave the history well-typed.
LEMMA UnclaimType ==
  ASSUME TypeOK, NEW h
  PROVE  Unclaim(h) \in [Lease -> Terms \cup {None}]
BY DEF TypeOK, Unclaim

\* A lease that takes over a claim holds what the other held.
LEMMA TakeOverType ==
  ASSUME TypeOK, NEW dst \in Lease, NEW src \in Lease,
         NEW leases \in SUBSET Lease, TakeOver(dst, src, leases)
  PROVE  /\ live' \subseteq Lease
         /\ lease' \in [Lease -> Handle \cup {None, Dangling}]
         /\ claim' \in [Lease -> Terms \cup {None}]
BY DEF TypeOK, TakeOver, Rebind

\* A new lease object holds a handle and is claimed on the terms asked for.
LEMMA EnrollType ==
  ASSUME TypeOK, NEW l \in Lease, NEW h \in Handle, NEW t \in Terms,
         Enroll(l, h, t)
  PROVE  /\ live' \subseteq Lease
         /\ lease' \in [Lease -> Handle \cup {None, Dangling}]
         /\ claim' \in [Lease -> Terms \cup {None}]
BY DEF TypeOK, Enroll

\* release_one of one claim among several keeps the record.
LEMMA ReleaseType ==
  ASSUME TypeOK, NEW h \in Handle, ReleaseAtOnce(h)
  PROVE  Held' = Held /\ records' \in [Held -> Record]
BY CountType DEF ReleaseAtOnce, TypeOK, Held

\* The table that has just been made, or has died.
LEMMA EmptyType == DOMAIN Empty = {} /\ \A S : Empty \in [{} -> S]
BY DEF Empty

\* Dropping a stale alias leaves the others.
LEMMA MemoAtStartType ==
  ASSUME TypeOK, NEW r \in Relation
  PROVE  /\ DOMAIN MemoAtStart(r) \subseteq DOMAIN memo
         /\ MemoAtStart(r) \in [DOMAIN MemoAtStart(r) -> Handle]
         /\ \A x \in DOMAIN MemoAtStart(r) : MemoAtStart(r)[x] = memo[x]
BY DEF TypeOK, MemoAtStart, Without

\* What an acquire that went to the wire leaves in the memo.
LEMMA LearnType ==
  ASSUME TypeOK, NEW r \in Relation, NEW h \in Handle
  PROVE  LET m == Put(MemoAtStart(r), r, h)
         IN  /\ DOMAIN m \subseteq Relation
             /\ m \in [DOMAIN m -> Handle]
             /\ m[r] = h
             /\ \A x \in DOMAIN m \ {r} : x \in DOMAIN memo /\ m[x] = memo[x]
<1> DEFINE s == MemoAtStart(r)
<1>1. /\ DOMAIN s \subseteq Relation /\ s \in [DOMAIN s -> Handle]
      /\ \A x \in DOMAIN s : x \in DOMAIN memo /\ s[x] = memo[x]
  BY MemoAtStartType DEF TypeOK
<1> DEFINE m == Put(s, r, h)
<1> HIDE DEF s
<1>2. /\ DOMAIN m = DOMAIN s \cup {r}
      /\ \A x \in DOMAIN m : m[x] = IF x = r THEN h ELSE s[x]
      /\ m = [x \in DOMAIN m |-> m[x]]
  BY DEF Put
<1> HIDE DEF m
<1>3. /\ DOMAIN m \subseteq Relation
      /\ m[r] = h
      /\ \A x \in DOMAIN m \ {r} : x \in DOMAIN memo /\ m[x] = memo[x]
  BY <1>1, <1>2
<1>4. m \in [DOMAIN m -> Handle]
  BY <1>1, <1>2
<1> QED
  BY <1>3, <1>4 DEF m, s

(* Every reachable state is well-typed: in particular a record counts at   *)
(* least one claim, and no release brings it to zero and leaves it there.  *)
THEOREM TypeCorrect == Spec => []TypeOK
<1>1. Init => TypeOK
  BY EmptyType, EmptySeq DEF Init, TypeOK, Held
<1>2. TypeOK /\ [Next]_vars => TypeOK'
  <2> SUFFICES ASSUME TypeOK, [Next]_vars PROVE TypeOK'
    OBVIOUS
  <2>1. CASE Construct
    BY <2>1 DEF TypeOK, Construct, Held, engine
  <2>2. ASSUME NEW r \in Relation, NEW t \in Terms, Acquire(r, t) PROVE TypeOK'
    <3>1. CASE AcquireRefused(r, t)
      BY <3>1 DEF TypeOK, AcquireRefused, vars, Held
    <3>2. CASE AcquireFailed(r)
      <4>1. DOMAIN memo' \subseteq Relation /\ memo' \in [DOMAIN memo' -> Handle]
        BY <3>2, MemoAtStartType DEF AcquireFailed, TypeOK
      <4>2. attached' \subseteq Handle
        BY <3>2, ConstantsOK DEF AcquireFailed, TypeOK
      <4> QED
        BY <3>2, <4>1, <4>2 DEF AcquireFailed, TypeOK, Held
    <3>3. ASSUME NEW h \in Handle, AcquireConflict(r, t, h) PROVE TypeOK'
      <4>1. DOMAIN memo' \subseteq Relation /\ memo' \in [DOMAIN memo' -> Handle]
        BY <3>3, LearnType DEF AcquireConflict
      <4> QED
        BY <3>3, <4>1 DEF AcquireConflict, TypeOK, Held
    <3>4. ASSUME NEW l \in Lease, AcquireShared(r, t, l) PROVE TypeOK'
      <4>1. memo[r] \in Held /\ memo[r] \in Handle
        BY <3>4 DEF AcquireShared, Remembered, TypeOK
      <4>2. Held' = Held /\ records' \in [Held -> Record]
        BY <3>4, <4>1, CountType DEF AcquireShared
      <4> QED
        BY <3>4, <4>1, <4>2, EnrollType DEF AcquireShared, TypeOK, engine
    <3>5. ASSUME NEW l \in Lease, NEW h \in Handle, AcquireFirst(r, t, l, h)
          PROVE  TypeOK'
      <4>1. DOMAIN memo' \subseteq Relation /\ memo' \in [DOMAIN memo' -> Handle]
        BY <3>5, LearnType DEF AcquireFirst
      <4>2. [terms |-> t, count |-> 1] \in Record
        BY DEF Record
      <4>3. Held' \subseteq Handle /\ records' \in [Held' -> Record]
        BY <3>5, <4>2 DEF AcquireFirst, TypeOK, Held, Put
      <4>4. subs' \in [Handle -> Int] /\ closing' \subseteq Handle
        BY <3>5 DEF AcquireFirst, VisitedLater, TypeOK
      <4> QED
        BY <3>5, <4>1, <4>3, <4>4, EnrollType DEF AcquireFirst, TypeOK
    <3>6. ASSUME NEW l \in Lease, NEW h \in Handle, AcquireAlias(r, t, l, h)
          PROVE  TypeOK'
      <4>1. DOMAIN memo' \subseteq Relation /\ memo' \in [DOMAIN memo' -> Handle]
        BY <3>6, LearnType DEF AcquireAlias
      <4>2. Held' = Held /\ records' \in [Held -> Record]
        BY <3>6, CountType DEF AcquireAlias
      <4> QED
        BY <3>6, <4>1, <4>2, EnrollType DEF AcquireAlias, TypeOK
    <3> QED
      BY <2>2, <3>1, <3>2, <3>3, <3>4, <3>5, <3>6 DEF Acquire
  <2>3. ASSUME NEW l \in Lease, Destroy(l) PROVE TypeOK'
    <3>1. lease[l] \in Handle
      BY <2>3 DEF Destroy, Engaged, TypeOK
    <3>2. live' \subseteq Lease /\ lease' \in [Lease -> Handle \cup {None, Dangling}]
      BY <2>3 DEF Destroy, TypeOK
    <3>3. CASE ReleaseAtOnce(lease[l]) /\ UNCHANGED <<memo, stops, closing>>
               /\ claim' = [claim EXCEPT ![l] = None]
      BY <2>3, <3>1, <3>2, <3>3, ReleaseType DEF Destroy, TypeOK, engine
    <3>4. CASE IsLast(lease[l]) /\ Retire(lease[l], None, None)
               /\ claim' = Unclaim(lease[l])
      BY <2>3, <3>1, <3>2, <3>4, RetireType, UnclaimType
         DEF Destroy, TypeOK, engine, IsLast
    <3> QED
      BY <2>3, <3>3, <3>4 DEF Destroy
  <2>4. ASSUME NEW dst \in Lease, NEW src \in Lease, Move(dst, src) PROVE TypeOK'
    BY <2>4, TakeOverType DEF Move, TypeOK, Held, engine
  <2>5. ASSUME NEW dst \in Lease, NEW src \in Lease, MoveAssign(dst, src)
        PROVE  TypeOK'
    <3>1. lease[dst] \in Handle
      BY <2>5 DEF MoveAssign, Engaged, TypeOK
    <3>2. CASE ReleaseAtOnce(lease[dst]) /\ UNCHANGED <<memo, stops, closing>>
               /\ TakeOver(dst, src, live \ {dst})
      <4>1. live \ {dst} \in SUBSET Lease
        BY DEF TypeOK
      <4> QED
        BY <2>5, <3>1, <3>2, <4>1, ReleaseType, TakeOverType
           DEF MoveAssign, TypeOK, engine
    <3>3. CASE IsLast(lease[dst]) /\ Retire(lease[dst], dst, src)
               /\ live' = live \ {dst} /\ claim' = Unclaim(lease[dst])
               /\ UNCHANGED lease
      <4>1. dst \notin {None} /\ src \notin {None}
        BY ConstantsOK
      <4> QED
        BY <2>5, <3>1, <3>3, <4>1, RetireType, UnclaimType
           DEF MoveAssign, TypeOK, engine, IsLast
    <3> QED
      BY <2>5, <3>2, <3>3 DEF MoveAssign
  <2>6. ASSUME NEW h \in Handle, ForceDetach(h) PROVE TypeOK'
    BY <2>6, RetireType, UnclaimType DEF ForceDetach, TypeOK, engine
  <2>7. CASE SendStop
    <3>1. stops' \in Seq(Frame)
      BY <2>7, MarkTop DEF SendStop, TypeOK
    <3> QED
      BY <2>7, <3>1 DEF SendStop, StopReaches, TypeOK, Held
  <2>8. CASE EndStop
    <3>1. stops' \in Seq(Frame) /\ Top \in Frame
      BY <2>8, PopFrame, ElementOfSeq, LenProperties, EmptySeq
         DEF EndStop, TypeOK, Top
    <3>2. /\ live' \subseteq Lease
          /\ lease' \in [Lease -> Handle \cup {None, Dangling}]
          /\ claim' \in [Lease -> Terms \cup {None}]
      <4>1. CASE Top.dst = None
        BY <2>8, <4>1 DEF EndStop, TypeOK
      <4>2. CASE Top.dst # None
        <5>1. Top.dst \in Lease /\ Top.src \in Lease
          BY <3>1, <4>2 DEF Frame
        <5>2. TakeOver(Top.dst, Top.src, live) /\ live \in SUBSET Lease
          BY <2>8, <4>2 DEF EndStop, TypeOK
        <5> QED
          BY <5>1, <5>2, TakeOverType
      <4> QED
        BY <4>1, <4>2
    <3>3. subs' \in [Handle -> Int]
      BY <2>8 DEF EndStop, Undeclare, TypeOK
    <3> QED
      BY <2>8, <3>1, <3>2, <3>3 DEF EndStop, TypeOK, Held
  <2>9. CASE BeginClose
    BY <2>9 DEF BeginClose, TypeOK, Held, engine
  <2>10. ASSUME NEW h \in Handle, CloseStop(h) PROVE TypeOK'
    <3> DEFINE f == [handle |-> h, sent |-> FALSE, dst |-> None, src |-> None]
    <3>1. f \in Frame
      BY DEF Frame
    <3>2. stops' = <<f>>
      BY <2>10 DEF CloseStop
    <3>3. stops' \in Seq(Frame)
      BY <3>1, <3>2
    <3> QED
      BY <2>10, <3>3 DEF CloseStop, TypeOK, Held, engine
  <2>11. CASE EndClose
    <3>1. subs' \in [Handle -> Int]
      BY <2>11 DEF EndClose, Undeclare, TypeOK
    <3> QED
      BY <2>11, <3>1, EmptyType DEF EndClose, TypeOK, Held
  <2>12. CASE UNCHANGED vars
    BY <2>12 DEF vars, TypeOK, Held
  <2> QED
    BY <2>1, <2>2, <2>3, <2>4, <2>5, <2>6, <2>7, <2>8, <2>9, <2>10, <2>11,
       <2>12 DEF Next
<1> QED
  BY <1>1, <1>2, PTL DEF Spec

---------------------------------------------------------------------------
(* The list of live leases.                                                *)

\* A move assignment in progress has a left side with the claim it gives up,
\* which no later call of StopFn touches, and a right side that is no other's
\* left side unless that is a later one.
Assignments ==
  /\ \A i \in DOMAIN stops : stops[i].dst # None =>
       /\ stops[i].dst # stops[i].src
       /\ lease[stops[i].dst] \in Handle
       /\ lease[stops[i].src] # Dangling
  /\ \A i, j \in DOMAIN stops : stops[j].dst # None /\ j < i =>
       /\ stops[i].dst # stops[j].dst
       /\ stops[i].src # stops[j].dst

Tracking == TypeOK /\ NoDanglingLease /\ Assignments

\* Leases are on the list only while somebody may call the table.
InUse == table # "none" /\ (table = "open" \/ "close_call" \in Permit)

LEMMA CallableInUse ==
  ASSUME Callable PROVE InUse
BY DEF Callable, InUse

\* A retirement begins, for an object that is destroyed (l), for a move
\* assignment to one that no assignment concerns (dst), or by force.
LEMMA RetireTracking ==
  ASSUME Tracking, InUse, table' = table, NEW h \in Handle,
         NEW dst \in Lease \cup {None}, NEW src \in Lease \cup {None},
         NEW l \in Lease \cup {None},
         Retire(h, dst, src),
         dst = None <=> src = None,
         dst # None => dst # src,
         \A x \in {dst, src} : x # None => lease[x] \in Handle /\ ~Receiving(x),
         l # None => ~Receiving(l) /\ l # dst /\ l # src,
         lease' = [x \in Lease |-> IF x = l THEN None ELSE lease[x]],
         live' = live \ {l, dst}
  PROVE  NoDanglingLease' /\ Assignments'
<1> DEFINE f == [handle |-> h, sent |-> FALSE, dst |-> dst, src |-> src]
           n == Len(stops) + 1
<1>1. f \in Frame /\ stops \in Seq(Frame) /\ f.dst = dst /\ f.src = src
  BY DEF Frame, Tracking, TypeOK
<1>2. /\ DOMAIN stops' = DOMAIN stops \cup {n}
      /\ n \notin DOMAIN stops
      /\ \A i \in DOMAIN stops : stops'[i] = stops[i] /\ i \in Nat /\ i < n
      /\ stops'[n] = f
  BY <1>1, PushFrame, LenProperties DEF Retire
<1>c. None \notin Handle /\ None \notin Lease /\ Dangling # None
  BY ConstantsOK DEF ConstantsOK
<1>d. n \in Nat
  BY <1>1, LenProperties
<1> HIDE DEF f, n
<1>3. \A x \in Lease : Receiving(x)' <=> (Receiving(x) \/ x = dst)
  BY <1>1, <1>2 DEF Receiving
<1>4. live' = {x \in Lease : lease'[x] \in Handle /\ ~Receiving(x)'}
  BY <1>3, <1>c DEF Tracking, NoDanglingLease, TypeOK
<1>5. NoDanglingLease'
  BY <1>4, <1>c DEF Tracking, NoDanglingLease, InUse
<1>6. ASSUME NEW i \in DOMAIN stops', stops'[i].dst # None
      PROVE  /\ stops'[i].dst # stops'[i].src
             /\ lease'[stops'[i].dst] \in Handle
             /\ lease'[stops'[i].src] # Dangling
  <2>1. CASE i = n
    BY <1>1, <1>2, <1>6, <1>c, <2>1, ConstantsOK DEF ConstantsOK
  <2>2. CASE i # n
    <3>1. i \in DOMAIN stops /\ stops'[i] = stops[i]
      BY <1>2, <2>2
    <3>2. stops[i].dst \in Lease /\ stops[i].src \in Lease
      BY <1>1, <1>6, <3>1, ElementOfSeq, LenProperties DEF Frame
    <3>3. stops[i].dst # l
      BY <1>6, <1>c, <3>1, <3>2 DEF Receiving
    <3> QED
      BY <1>6, <1>c, <3>1, <3>2, <3>3 DEF Tracking, Assignments
  <2> QED
    BY <2>1, <2>2
<1>7. ASSUME NEW i \in DOMAIN stops', NEW j \in DOMAIN stops',
             stops'[j].dst # None, j < i
      PROVE  stops'[i].dst # stops'[j].dst /\ stops'[i].src # stops'[j].dst
  <2>1. j \in DOMAIN stops /\ stops'[j] = stops[j]
    BY <1>2, <1>7, <1>d
  <2>2. stops[j].dst \in Lease
    BY <1>1, <1>7, <2>1, ElementOfSeq, LenProperties DEF Frame
  <2>3. CASE i = n
    <3>1. Receiving(stops[j].dst)
      BY <2>1 DEF Receiving
    <3> QED
      BY <1>1, <1>2, <1>c, <2>1, <2>2, <2>3, <3>1
  <2>4. CASE i # n
    BY <1>2, <1>7, <2>1, <2>4 DEF Tracking, Assignments
  <2> QED
    BY <2>3, <2>4
<1>8. Assignments'
  BY <1>6, <1>7 DEF Assignments
<1> QED
  BY <1>5, <1>8

\* One object takes over what another holds, neither being the left side of
\* a move assignment that stays in progress.
LEMMA TakeOverTracking ==
  ASSUME Tracking, table # "none", table' = table,
         NEW dst \in Lease, NEW src \in Lease, dst # src,
         NEW keep \in SUBSET DOMAIN stops,
         stops' \in Seq(Frame), DOMAIN stops' = keep,
         \A i \in keep : stops'[i] = stops[i] /\ stops[i].dst \notin {dst, src},
         \A i \in DOMAIN stops \ keep : stops[i].dst \in {None, dst},
         lease[src] # Dangling, TakeOver(dst, src, live \ {dst})
  PROVE  NoDanglingLease' /\ Assignments'
<1>c. None \notin Handle /\ None \notin Lease /\ Dangling # None
  BY ConstantsOK DEF ConstantsOK
<1>1. /\ \A l \in Lease : lease'[l] = IF l = src THEN None
                                     ELSE IF l = dst THEN lease[src] ELSE lease[l]
      /\ live' = IF src \in live THEN (live \ {src, dst}) \cup {dst} ELSE live \ {dst}
  BY DEF TakeOver, Rebind, Tracking, TypeOK
<1>2. ~Receiving(src) /\ (src \in live <=> lease[src] \in Handle)
  BY <1>c DEF Receiving, Tracking, NoDanglingLease
<1>3. /\ ~Receiving(dst)' /\ ~Receiving(src)'
      /\ \A l \in Lease \ {dst} : Receiving(l)' <=> Receiving(l)
  BY <1>c DEF Receiving
<1>4. live' = {l \in Lease : lease'[l] \in Handle /\ ~Receiving(l)'}
  <2>1. ASSUME NEW l \in Lease
        PROVE  l \in live' <=> lease'[l] \in Handle /\ ~Receiving(l)'
    <3>1. CASE l = src
      BY <1>1, <1>c, <3>1
    <3>2. CASE l = dst
      BY <1>1, <1>2, <1>3, <3>2
    <3>3. CASE l # src /\ l # dst
      BY <1>1, <1>3, <3>3 DEF Tracking, NoDanglingLease
    <3> QED
      BY <3>1, <3>2, <3>3
  <2>2. live' \subseteq Lease
    BY <1>1 DEF Tracking, TypeOK
  <2> QED
    BY <2>1, <2>2
<1>5. NoDanglingLease'
  <2>1. ASSUME "close_call" \notin Permit, NEW l \in Lease
        PROVE  lease'[l] # Dangling /\ (table' # "open" => l \notin live')
    BY <1>1, <1>c, <2>1 DEF Tracking, NoDanglingLease
  <2> QED
    BY <1>4, <2>1 DEF NoDanglingLease
<1>6. ASSUME NEW i \in keep, stops[i].dst # None
      PROVE  /\ lease'[stops[i].dst] \in Handle
             /\ lease'[stops[i].src] # Dangling
  <2>1. stops[i].dst \in Lease /\ stops[i].src \in Lease
    BY <1>6, ElementOfSeq, LenProperties DEF Tracking, TypeOK, Frame
  <2> QED
    BY <1>1, <1>6, <1>c, <2>1 DEF Tracking, Assignments
<1>7. Assignments'
  BY <1>6 DEF Tracking, Assignments
<1> QED
  BY <1>5, <1>7

\* A lease object that can be destroyed or moved from is listed.
LEMMA EngagedIsLive ==
  ASSUME Tracking, NEW l \in Lease, Engaged(l)
  PROVE  l \in live
BY DEF Tracking, NoDanglingLease, Engaged

\* One that can receive is not, and is no left side of an assignment.
LEMMA VacantIsFree ==
  ASSUME Tracking, NEW l \in Lease, Vacant(l)
  PROVE  l \notin live /\ ~Receiving(l)
<1>1. None \notin Handle /\ None \notin Lease
  BY ConstantsOK DEF ConstantsOK
<1> QED
  BY <1>1 DEF Tracking, NoDanglingLease, Assignments, Receiving, Vacant

LEMMA EnrollTracking ==
  ASSUME Tracking, NEW l \in Lease, Vacant(l), NEW h \in Handle, NEW t \in Terms,
         Enroll(l, h, t), stops' = stops, InUse, table' = table
  PROVE  NoDanglingLease' /\ Assignments'
<1>1. h # Dangling /\ ~Receiving(l) /\ l \notin live
  BY VacantIsFree, ConstantsOK DEF ConstantsOK
<1>2. \A x \in Lease : lease'[x] = IF x = l THEN h ELSE lease[x]
  BY DEF Enroll, Tracking, TypeOK
<1>3. \A x \in Lease : Receiving(x)' <=> Receiving(x)
  BY DEF Receiving
<1>4. NoDanglingLease'
  BY <1>1, <1>2, <1>3 DEF Tracking, TypeOK, NoDanglingLease, Enroll, InUse
<1>5. ASSUME NEW i \in DOMAIN stops, stops[i].dst # None
      PROVE  /\ lease'[stops[i].dst] \in Handle
             /\ lease'[stops[i].src] # Dangling
  <2>1. stops[i].dst \in Lease /\ stops[i].src \in Lease
    BY <1>5, ElementOfSeq, LenProperties DEF Tracking, TypeOK, Frame
  <2> QED
    BY <1>1, <1>2, <1>5, <2>1 DEF Tracking, Assignments
<1>6. Assignments'
  BY <1>5 DEF Tracking, Assignments
<1> QED
  BY <1>4, <1>6

(* The inductive form: a move assignment that waits for a stop has a left  *)
(* side that is off the list and that no other one concerns.               *)
LEMMA TrackingInvariant == Spec => [](TypeOK /\ NoDanglingLease /\ Assignments)
<1>1. ASSUME Init PROVE NoDanglingLease /\ Assignments
  <2>1. DOMAIN stops = {} /\ stops = <<>> /\ live = {}
        /\ \A l \in Lease : lease[l] = None
    BY <1>1, EmptySeq DEF Init
  <2>2. None \notin Handle /\ None # Dangling
    BY ConstantsOK DEF ConstantsOK
  <2> QED
    BY <2>1, <2>2 DEF NoDanglingLease, Assignments
<1>2. TypeOK /\ TypeOK' /\ NoDanglingLease /\ Assignments /\ [Next]_vars
        => NoDanglingLease' /\ Assignments'
  <2> SUFFICES ASSUME Tracking, TypeOK', [Next]_vars
               PROVE  NoDanglingLease' /\ Assignments'
    BY DEF Tracking
  <2>c. /\ None \notin Handle /\ None \notin Lease /\ Dangling # None
        /\ Dangling \notin Handle
    BY ConstantsOK DEF ConstantsOK
  <2>1. CASE table' = table /\ UNCHANGED <<live, lease, stops>>
    BY <2>1 DEF Tracking, NoDanglingLease, Assignments, Receiving
  <2>2. CASE Construct
    BY <2>2 DEF Tracking, NoDanglingLease, Assignments, Receiving, Construct
  <2>3. ASSUME NEW r \in Relation, NEW t \in Terms, Acquire(r, t)
        PROVE  NoDanglingLease' /\ Assignments'
    <3>1. CASE AcquireRefused(r, t)
      BY <2>1, <3>1 DEF AcquireRefused, vars
    <3>2. CASE AcquireFailed(r)
      BY <2>1, <3>2 DEF AcquireFailed
    <3>3. ASSUME NEW h \in Handle, AcquireConflict(r, t, h)
          PROVE  NoDanglingLease' /\ Assignments'
      BY <2>1, <3>3 DEF AcquireConflict
    <3>4. ASSUME NEW l \in Lease, AcquireShared(r, t, l)
          PROVE  NoDanglingLease' /\ Assignments'
      <4>1. memo[r] \in Handle
        BY <3>4 DEF AcquireShared, Remembered, Tracking, TypeOK
      <4> QED
        BY <3>4, <4>1, EnrollTracking, CallableInUse DEF AcquireShared
    <3>5. ASSUME NEW l \in Lease, NEW h \in Handle, AcquireFirst(r, t, l, h)
          PROVE  NoDanglingLease' /\ Assignments'
      BY <3>5, EnrollTracking, CallableInUse DEF AcquireFirst
    <3>6. ASSUME NEW l \in Lease, NEW h \in Handle, AcquireAlias(r, t, l, h)
          PROVE  NoDanglingLease' /\ Assignments'
      BY <3>6, EnrollTracking, CallableInUse DEF AcquireAlias
    <3> QED
      BY <2>3, <3>1, <3>2, <3>3, <3>4, <3>5, <3>6 DEF Acquire
  <2>4. ASSUME NEW l \in Lease, Destroy(l)
        PROVE  NoDanglingLease' /\ Assignments'
    <3>1. /\ InUse /\ table' = table
          /\ lease[l] \in Handle /\ ~Receiving(l)
          /\ live' = live \ {l}
          /\ lease' = [x \in Lease |-> IF x = l THEN None ELSE lease[x]]
      BY <2>4, CallableInUse DEF Destroy, Engaged, Tracking, TypeOK
    <3>2. CASE UNCHANGED stops
      <4>1. NoDanglingLease'
        BY <3>1, <3>2, <2>c DEF Tracking, NoDanglingLease, Receiving, InUse
      <4>2. ASSUME NEW i \in DOMAIN stops, stops[i].dst # None
            PROVE  lease'[stops[i].dst] \in Handle /\ lease'[stops[i].src] # Dangling
        <5>1. stops[i].dst \in Lease /\ stops[i].src \in Lease
          BY <4>2, ElementOfSeq, LenProperties DEF Tracking, TypeOK, Frame
        <5> QED
          BY <3>1, <4>2, <5>1, <2>c DEF Tracking, Assignments, Receiving
      <4> QED
        BY <3>2, <4>1, <4>2 DEF Tracking, Assignments
    <3>3. CASE Retire(lease[l], None, None)
      <4>1. live' = live \ {l, None}
        BY <3>1, <2>c DEF Tracking, TypeOK
      <4>2. l # None
        BY <2>c
      <4> QED
        BY <3>1, <3>3, <4>1, <4>2, RetireTracking
    <3> QED
      BY <2>4, <3>2, <3>3 DEF Destroy
  <2>5. ASSUME NEW dst \in Lease, NEW src \in Lease, Move(dst, src)
        PROVE  NoDanglingLease' /\ Assignments'
    <3>1. /\ table # "none" /\ table' = table /\ stops' = stops
          /\ dst \notin live /\ ~Receiving(dst)
          /\ src \in live /\ ~Receiving(src) /\ lease[src] # Dangling
      BY <2>5, <2>c, EngagedIsLive, VacantIsFree, CallableInUse
         DEF Move, InUse, Engaged
    <3>2. live \ {dst} = live /\ dst # src
      BY <3>1
    <3>3. TakeOver(dst, src, live \ {dst})
      BY <2>5, <3>2 DEF Move
    <3>4. \A i \in DOMAIN stops : stops[i].dst \notin {dst, src}
      BY <3>1 DEF Receiving
    <3> QED
      BY <3>1, <3>2, <3>3, <3>4, TakeOverTracking DEF Tracking, TypeOK
  <2>6. ASSUME NEW dst \in Lease, NEW src \in Lease, MoveAssign(dst, src)
        PROVE  NoDanglingLease' /\ Assignments'
    <3>1. /\ InUse /\ table' = table
          /\ dst # src /\ dst \in live /\ src \in live
          /\ lease[dst] \in Handle /\ lease[src] \in Handle
          /\ ~Receiving(dst) /\ ~Receiving(src)
          /\ dst # None /\ src # None
      BY <2>6, <2>c, EngagedIsLive, CallableInUse DEF MoveAssign, Engaged
    <3>2. CASE TakeOver(dst, src, live \ {dst}) /\ UNCHANGED stops
      <4>1. \A i \in DOMAIN stops : stops[i].dst \notin {dst, src}
        BY <3>1 DEF Receiving
      <4>2. lease[src] # Dangling /\ table # "none"
        BY <3>1, <2>c DEF InUse
      <4> QED
        BY <3>1, <3>2, <4>1, <4>2, TakeOverTracking DEF Tracking, TypeOK
    <3>3. CASE Retire(lease[dst], dst, src) /\ live' = live \ {dst}
               /\ UNCHANGED lease
      <4>1. /\ live' = live \ {None, dst}
            /\ lease' = [x \in Lease |-> IF x = None THEN None ELSE lease[x]]
        BY <3>3, <2>c DEF Tracking, TypeOK
      <4>2. \A x \in {dst, src} : lease[x] \in Handle /\ ~Receiving(x)
        BY <3>1
      <4> DEFINE h == lease[dst]
      <4>3. h \in Handle /\ Retire(h, dst, src)
        BY <3>1, <3>3
      <4> HIDE DEF h
      <4> QED
        BY <3>1, <4>1, <4>2, <4>3, RetireTracking
    <3> QED
      BY <2>6, <3>2, <3>3 DEF MoveAssign
  <2>7. ASSUME NEW h \in Handle, ForceDetach(h)
        PROVE  NoDanglingLease' /\ Assignments'
    <3>1. /\ live' = live \ {None, None}
          /\ lease' = [x \in Lease |-> IF x = None THEN None ELSE lease[x]]
          /\ InUse /\ table' = table
          /\ Retire(h, None, None)
      BY <2>7, <2>c, CallableInUse DEF ForceDetach, Tracking, TypeOK
    <3> QED
      BY <3>1, RetireTracking
  <2>8. CASE SendStop
    <3>1. /\ DOMAIN stops' = DOMAIN stops
          /\ \A i \in DOMAIN stops : /\ stops'[i].dst = stops[i].dst
                                     /\ stops'[i].src = stops[i].src
      BY <2>8, MarkTop DEF SendStop, Tracking, TypeOK
    <3>2. UNCHANGED <<table, live, lease>> /\ stops # <<>>
      BY <2>8 DEF SendStop
    <3>3. \A l : Receiving(l)' <=> Receiving(l)
      BY <3>1 DEF Receiving
    <3>4. NoDanglingLease'
      BY <3>2, <3>3 DEF Tracking, NoDanglingLease
    <3>5. Assignments'
      BY <3>1, <3>2 DEF Tracking, Assignments
    <3> QED
      BY <3>4, <3>5
  <2>9. CASE EndStop
    <3> DEFINE keep == DOMAIN stops \ {Len(stops)}
    <3>1. /\ stops' \in Seq(Frame) /\ DOMAIN stops' = keep
          /\ Len(stops) \in DOMAIN stops
          /\ \A i \in keep : stops'[i] = stops[i] /\ i < Len(stops)
          /\ table # "none" /\ table' = table
      <4>1. stops \in Seq(Frame) /\ stops # <<>>
            /\ stops' = SubSeq(stops, 1, Len(stops) - 1)
            /\ table # "none" /\ table' = table
        BY <2>9 DEF EndStop, Tracking, TypeOK, NoDanglingLease
      <4>2. \A i \in keep : i < Len(stops)
        BY <4>1, LenProperties
      <4> QED
        BY <4>1, <4>2, PopFrame
    <3>2. Top \in Frame
      BY <3>1, ElementOfSeq, LenProperties DEF Top, Tracking, TypeOK
    <3>3. CASE Top.dst = None
      <4>1. UNCHANGED <<live, lease>>
        BY <2>9, <3>3 DEF EndStop
      <4>2. \A l \in Lease : Receiving(l)' <=> Receiving(l)
        BY <3>1, <3>3, <2>c DEF Receiving, Top
      <4>3. NoDanglingLease'
        BY <3>1, <4>1, <4>2 DEF NoDanglingLease, Tracking
      <4>4. Assignments'
        BY <3>1, <4>1 DEF Assignments, Tracking
      <4> QED
        BY <4>3, <4>4
    <3>4. CASE Top.dst # None
      <4> DEFINE dst == Top.dst
                 src == Top.src
      <4>1. dst \in Lease /\ src \in Lease
        BY <3>2, <3>4 DEF Frame
      <4>2. dst # src /\ lease[src] # Dangling
        BY <3>1, <3>4 DEF Tracking, Assignments, Top
      <4>3. \A i \in keep : stops[i].dst \notin {dst, src}
        BY <3>1, <4>1, <2>c DEF Tracking, Assignments, Top
      <4>4. \A i \in DOMAIN stops \ keep : stops[i].dst = dst
        BY <3>1 DEF Top
      <4>5. dst \notin live
        BY <3>1 DEF Tracking, NoDanglingLease, Receiving, Top
      <4>6. live \ {dst} = live
        BY <4>5
      <4>7. TakeOver(dst, src, live \ {dst})
        BY <2>9, <3>4, <4>6 DEF EndStop
      <4> HIDE DEF keep, dst, src
      <4>8. keep \in SUBSET DOMAIN stops
        BY DEF keep
      <4> QED
        BY <3>1, <4>1, <4>2, <4>3, <4>4, <4>7, <4>8, TakeOverTracking
    <3> QED
      BY <3>3, <3>4
  <2>10. CASE BeginClose
    <3>1. stops = <<>> /\ stops' = <<>> /\ DOMAIN stops = {}
      BY <2>10, EmptySeq DEF BeginClose
    <3>2. \A l \in Lease : l \in live <=> lease[l] \in Handle
      BY <3>1 DEF Tracking, NoDanglingLease, Receiving
    <3>3. /\ live' = {} /\ table' = "closing"
          /\ \A l \in Lease : lease'[l] = IF l \in live THEN None ELSE lease[l]
      BY <2>10 DEF BeginClose
    <3> QED
      BY <3>1, <3>2, <3>3, <2>c DEF Tracking, NoDanglingLease, Assignments, Receiving
  <2>11. ASSUME NEW h \in Handle, CloseStop(h)
         PROVE  NoDanglingLease' /\ Assignments'
    <3>1. /\ UNCHANGED <<table, live, lease>> /\ table = "closing"
          /\ stops = <<>> /\ DOMAIN stops = {}
          /\ DOMAIN stops' = {1} /\ stops'[1].dst = None /\ stops'[1].src = None
      BY <2>11, EmptySeq DEF CloseStop
    <3>2. \A l \in Lease : ~Receiving(l)' /\ ~Receiving(l)
      BY <3>1, <2>c DEF Receiving
    <3> QED
      BY <3>1, <3>2, <2>c DEF Tracking, NoDanglingLease, Assignments
  <2>12. CASE EndClose
    <3>1. /\ stops = <<>> /\ stops' = <<>> /\ DOMAIN stops = {}
          /\ table = "closing" /\ table' = "none" /\ live' = {}
          /\ \A l \in Lease :
               lease'[l] = IF l \in live THEN Dangling ELSE lease[l]
      BY <2>12, EmptySeq DEF EndClose
    <3>2. \A l \in Lease : l \in live <=> lease[l] \in Handle
      BY <3>1 DEF Tracking, NoDanglingLease, Receiving
    <3>3. \A l \in Lease : lease'[l] \notin Handle
      BY <3>1, <3>2, <2>c
    <3>4. "close_call" \notin Permit => \A l \in Lease : lease'[l] # Dangling
      BY <3>1 DEF Tracking, NoDanglingLease
    <3> QED
      BY <3>1, <3>3, <3>4 DEF NoDanglingLease, Assignments
  <2>13. CASE UNCHANGED vars
    BY <2>1, <2>13 DEF vars
  <2> QED
    BY <2>2, <2>3, <2>4, <2>5, <2>6, <2>7, <2>8, <2>9, <2>10, <2>11, <2>12,
       <2>13 DEF Next
<1> QED
  BY <1>1, <1>2, TypeCorrect, PTL DEF Spec

(* live_ lists the leases that point at the table, across moves, and       *)
(* assignments that wait for a stop whose StopFn uses what they assign     *)
(* from, under ~RelationLeaseTable too; and unless a StopFn takes a lease  *)
(* from the table while that runs, none points at a table that has died.   *)
THEOREM LeasesAreTracked == Spec => []NoDanglingLease
BY TrackingInvariant, PTL

---------------------------------------------------------------------------
(* Claims and the terms of their records; the memo and the records.        *)

Sharing == Tracking /\ SharedOnEqualTerms /\ AliasesResolve

\* A spelling the memo does not resolve is not in it, so a start leaves the
\* other aliases alone: acquire's repair of a stale alias never runs.
LEMMA NoStaleAlias ==
  ASSUME Sharing, NEW r \in Relation, ~Remembered(r)
  PROVE  r \notin DOMAIN memo /\ DOMAIN MemoAtStart(r) = DOMAIN memo
         /\ \A x \in DOMAIN memo : MemoAtStart(r)[x] = memo[x]
BY DEF Sharing, AliasesResolve, Remembered, MemoAtStart, Without

\* A spelling learnt for a held stream resolves to its record.
LEMMA LearnResolves ==
  ASSUME Sharing, NEW r \in Relation, ~Remembered(r), NEW h \in Handle,
         memo' = Put(MemoAtStart(r), r, h),
         Held' = Held \cup {h}
  PROVE  AliasesResolve'
<1>1. DOMAIN memo' = DOMAIN memo \cup {r}
  BY NoStaleAlias DEF Put
<1>2. \A x \in DOMAIN memo : memo'[x] = memo[x]
  BY NoStaleAlias DEF Put
<1>3. memo'[r] = h
  BY DEF Put
<1> QED
  BY <1>1, <1>2, <1>3 DEF Sharing, AliasesResolve, Aliases

\* A retirement takes the spellings of its record with it.
LEMMA RetireResolves ==
  ASSUME Sharing, NEW h \in Held,
         NEW dst \in Lease \cup {None}, NEW src \in Lease \cup {None},
         dst = None <=> src = None, Retire(h, dst, src)
  PROVE  AliasesResolve'
<1>1. /\ Held' = Held \ {h}
      /\ DOMAIN memo' = DOMAIN memo \ Aliases(h)
      /\ \A r \in DOMAIN memo' : memo'[r] = memo[r]
  BY RetireType DEF Sharing, Tracking
<1> QED
  BY <1>1 DEF Sharing, AliasesResolve, Aliases

\* The claims on a retired record end; the others keep record and terms.
LEMMA RetireShares ==
  ASSUME Sharing, NEW h \in Held,
         NEW dst \in Lease \cup {None}, NEW src \in Lease \cup {None},
         dst = None <=> src = None, Retire(h, dst, src),
         claim' = Unclaim(h),
         \A l \in Lease : lease[l] # h =>
           lease'[l] = lease[l] /\ (l \in live => l \in live')
  PROVE  SharedOnEqualTerms'
<1>1. /\ Held' = Held \ {h}
      /\ \A x \in Held' : records'[x] = records[x]
  BY RetireType DEF Sharing, Tracking
<1>2. \A l \in Lease : claim'[l] = IF lease[l] = h THEN None ELSE claim[l]
  BY DEF Unclaim
<1> QED
  BY <1>1, <1>2 DEF Sharing, SharedOnEqualTerms

\* Taking a claim over keeps it on its record.
LEMMA TakeOverShares ==
  ASSUME Sharing, NEW dst \in Lease, NEW src \in Lease, dst # src,
         NEW leases \in SUBSET live, live \ {dst} \subseteq leases,
         TakeOver(dst, src, leases),
         Held' = Held, \A h \in Held : records'[h].terms = records[h].terms
  PROVE  SharedOnEqualTerms'
<1>1. \A l \in Lease :
        /\ lease'[l] = IF l = src THEN None
                       ELSE IF l = dst THEN lease[src] ELSE lease[l]
        /\ claim'[l] = IF l = src THEN None
                       ELSE IF l = dst THEN claim[src] ELSE claim[l]
  BY DEF TakeOver, Sharing, Tracking, TypeOK
<1>2. live' = IF src \in leases THEN (leases \ {src}) \cup {dst} ELSE leases
  BY DEF TakeOver, Rebind
<1> QED
  BY <1>1, <1>2 DEF Sharing, SharedOnEqualTerms

\* A new claim is on its record's terms, and the others are where they were.
LEMMA EnrollShares ==
  ASSUME Sharing, NEW l \in Lease, NEW h \in Handle, NEW t \in Terms,
         Enroll(l, h, t), h \in Held', Held \subseteq Held',
         records'[h].terms = t,
         \A x \in Held : records'[x].terms = records[x].terms
  PROVE  SharedOnEqualTerms'
BY DEF Enroll, Sharing, SharedOnEqualTerms, Tracking, TypeOK

(* Every component on a stream asked for it on the terms of its record,    *)
(* and the memo holds the spellings of the records and nothing else.       *)
THEOREM ClaimsShareTheirTerms == Spec => [](SharedOnEqualTerms /\ AliasesResolve)
<1>1. Init => SharedOnEqualTerms /\ AliasesResolve
  BY EmptyType DEF Init, SharedOnEqualTerms, AliasesResolve, Held
<1>2. TypeOK /\ NoDanglingLease /\ Assignments
        /\ SharedOnEqualTerms /\ AliasesResolve /\ [Next]_vars
        => SharedOnEqualTerms' /\ AliasesResolve'
  <2> SUFFICES ASSUME Sharing, [Next]_vars
               PROVE  SharedOnEqualTerms' /\ AliasesResolve'
    BY DEF Sharing, Tracking
  <2> USE DEF Sharing
  <2>1. CASE UNCHANGED <<records, memo, live, lease, claim>>
    BY <2>1 DEF SharedOnEqualTerms, AliasesResolve, Held, Aliases
  <2>2. CASE Construct
    BY <2>1, <2>2 DEF Construct
  <2>3. ASSUME NEW r \in Relation, NEW t \in Terms, Acquire(r, t)
        PROVE  SharedOnEqualTerms' /\ AliasesResolve'
    <3>1. CASE AcquireRefused(r, t)
      BY <2>1, <3>1 DEF AcquireRefused, vars
    <3>2. CASE AcquireFailed(r)
      <4>1. /\ UNCHANGED <<records, live, lease, claim>>
            /\ DOMAIN memo' = DOMAIN memo
            /\ \A x \in DOMAIN memo : memo'[x] = memo[x]
        BY <3>2, NoStaleAlias DEF AcquireFailed
      <4> QED
        BY <4>1 DEF SharedOnEqualTerms, AliasesResolve, Held, Aliases
    <3>3. ASSUME NEW h \in Handle, AcquireConflict(r, t, h)
          PROVE  SharedOnEqualTerms' /\ AliasesResolve'
      <4>1. AliasesResolve'
        BY <3>3, LearnResolves DEF AcquireConflict, Held
      <4>2. UNCHANGED <<records, live, lease, claim>>
        BY <3>3 DEF AcquireConflict
      <4> QED
        BY <4>1, <4>2 DEF SharedOnEqualTerms, Held
    <3>4. ASSUME NEW l \in Lease, AcquireShared(r, t, l)
          PROVE  SharedOnEqualTerms' /\ AliasesResolve'
      <4> DEFINE h == memo[r]
      <4>1. /\ h \in Held /\ h \in Handle /\ UNCHANGED memo
            /\ records[h].terms = t /\ Enroll(l, h, t) /\ CountUp(h)
        BY <3>4 DEF AcquireShared, Remembered, Tracking, TypeOK, SameTerms
      <4> HIDE DEF h
      <4>2. Held' = Held /\ \A x \in Held : records'[x].terms = records[x].terms
        BY <4>1, CountType DEF Tracking
      <4>3. SharedOnEqualTerms'
        BY <4>1, <4>2, EnrollShares
      <4> QED
        BY <4>1, <4>2, <4>3 DEF AliasesResolve, Aliases
    <3>5. ASSUME NEW l \in Lease, NEW h \in Handle, AcquireFirst(r, t, l, h)
          PROVE  SharedOnEqualTerms' /\ AliasesResolve'
      <4>1. /\ Held' = Held \cup {h} /\ h \notin Held
            /\ records'[h].terms = t
            /\ \A x \in Held : records'[x] = records[x]
        BY <3>5 DEF AcquireFirst, Held, Put
      <4>2. AliasesResolve'
        BY <3>5, <4>1, LearnResolves DEF AcquireFirst
      <4>3. SharedOnEqualTerms'
        BY <3>5, <4>1, EnrollShares DEF AcquireFirst
      <4> QED
        BY <4>2, <4>3
    <3>6. ASSUME NEW l \in Lease, NEW h \in Handle, AcquireAlias(r, t, l, h)
          PROVE  SharedOnEqualTerms' /\ AliasesResolve'
      <4>1. /\ Held' = Held /\ h \in Held
            /\ records[h].terms = t
            /\ \A x \in Held : records'[x].terms = records[x].terms
        BY <3>6, CountType DEF AcquireAlias, SameTerms, Tracking
      <4>2. AliasesResolve'
        BY <3>6, <4>1, LearnResolves DEF AcquireAlias
      <4>3. SharedOnEqualTerms'
        BY <3>6, <4>1, EnrollShares DEF AcquireAlias
      <4> QED
        BY <4>2, <4>3
    <3> QED
      BY <2>3, <3>1, <3>2, <3>3, <3>4, <3>5, <3>6 DEF Acquire
  <2>4. ASSUME NEW l \in Lease, Destroy(l)
        PROVE  SharedOnEqualTerms' /\ AliasesResolve'
    <3>1. /\ lease[l] \in Handle /\ live' = live \ {l}
          /\ \A x \in Lease \ {l} : lease'[x] = lease[x]
      BY <2>4 DEF Destroy, Engaged, Tracking, TypeOK
    <3>2. CASE ReleaseAtOnce(lease[l]) /\ UNCHANGED memo
               /\ claim' = [claim EXCEPT ![l] = None]
      <4>1. /\ Held' = Held
            /\ \A h \in Held : records'[h].terms = records[h].terms
        BY <3>2, CountType DEF ReleaseAtOnce, Held, Tracking
      <4> QED
        BY <3>1, <3>2, <4>1
           DEF SharedOnEqualTerms, AliasesResolve, Aliases, Tracking, TypeOK
    <3>3. CASE IsLast(lease[l]) /\ Retire(lease[l], None, None)
               /\ claim' = Unclaim(lease[l])
      <4>1. lease[l] \in Held
        BY <3>3 DEF IsLast
      <4>2. \A x \in Lease : lease[x] # lease[l] =>
              lease'[x] = lease[x] /\ (x \in live => x \in live')
        BY <3>1
      <4> QED
        BY <3>3, <4>1, <4>2, RetireResolves, RetireShares
    <3> QED
      BY <2>4, <3>2, <3>3 DEF Destroy
  <2>5. ASSUME NEW dst \in Lease, NEW src \in Lease, Move(dst, src)
        PROVE  SharedOnEqualTerms' /\ AliasesResolve'
    <3>1. dst # src /\ src \in live
      BY <2>5, EngagedIsLive, VacantIsFree DEF Move
    <3>2. /\ UNCHANGED <<records, memo>> /\ TakeOver(dst, src, live)
          /\ live \in SUBSET live /\ live \ {dst} \subseteq live
      BY <2>5 DEF Move
    <3>3. SharedOnEqualTerms'
      BY <3>1, <3>2, TakeOverShares DEF Held
    <3> QED
      BY <3>2, <3>3 DEF AliasesResolve, Aliases, Held
  <2>6. ASSUME NEW dst \in Lease, NEW src \in Lease, MoveAssign(dst, src)
        PROVE  SharedOnEqualTerms' /\ AliasesResolve'
    <3>1. dst # src /\ src \in live /\ lease[dst] \in Handle
          /\ dst # None /\ src # None
      BY <2>6, EngagedIsLive, ConstantsOK
         DEF MoveAssign, Engaged, Tracking, TypeOK
    <3>2. CASE ReleaseAtOnce(lease[dst]) /\ UNCHANGED memo
               /\ TakeOver(dst, src, live \ {dst})
      <4>1. /\ Held' = Held
            /\ \A h \in Held : records'[h].terms = records[h].terms
        BY <3>2, CountType DEF ReleaseAtOnce, Held, Tracking
      <4>2. live \ {dst} \in SUBSET live
        OBVIOUS
      <4>3. SharedOnEqualTerms'
        BY <3>1, <3>2, <4>1, <4>2, TakeOverShares
      <4> QED
        BY <3>2, <4>1, <4>3 DEF AliasesResolve, Aliases
    <3>3. CASE IsLast(lease[dst]) /\ Retire(lease[dst], dst, src)
               /\ live' = live \ {dst} /\ claim' = Unclaim(lease[dst])
               /\ UNCHANGED lease
      <4>1. lease[dst] \in Held
        BY <3>3 DEF IsLast
      <4>2. \A x \in Lease : lease[x] # lease[dst] =>
              lease'[x] = lease[x] /\ (x \in live => x \in live')
        BY <3>3
      <4> QED
        BY <3>1, <3>3, <4>1, <4>2, RetireResolves, RetireShares
    <3> QED
      BY <2>6, <3>2, <3>3 DEF MoveAssign
  <2>7. ASSUME NEW h \in Handle, ForceDetach(h)
        PROVE  SharedOnEqualTerms' /\ AliasesResolve'
    BY <2>7, RetireResolves, RetireShares DEF ForceDetach
  <2>8. CASE SendStop
    BY <2>1, <2>8 DEF SendStop
  <2>9. CASE EndStop
    <3>1. UNCHANGED <<records, memo>>
      BY <2>9 DEF EndStop
    <3>2. CASE Top.dst = None
      BY <2>1, <2>9, <3>1, <3>2 DEF EndStop
    <3>3. CASE Top.dst # None
      <4> DEFINE dst == Top.dst
                 src == Top.src
      <4>1. Len(stops) \in DOMAIN stops /\ Top \in Frame
        BY <2>9, PopFrame, ElementOfSeq, LenProperties
           DEF EndStop, Top, Tracking, TypeOK
      <4>2. dst \in Lease /\ src \in Lease
        BY <3>3, <4>1 DEF Frame
      <4>3. dst # src
        BY <3>3, <4>1 DEF Tracking, Assignments, Top
      <4>4. TakeOver(dst, src, live) /\ live \in SUBSET live
            /\ live \ {dst} \subseteq live
        BY <2>9, <3>3 DEF EndStop
      <4> HIDE DEF dst, src
      <4>5. SharedOnEqualTerms'
        BY <3>1, <4>2, <4>3, <4>4, TakeOverShares DEF Held
      <4> QED
        BY <3>1, <4>5 DEF AliasesResolve, Aliases, Held
    <3> QED
      BY <3>2, <3>3
  <2>10. CASE BeginClose
    BY <2>10 DEF BeginClose, SharedOnEqualTerms, AliasesResolve, Held, Aliases
  <2>11. ASSUME NEW h \in Handle, CloseStop(h)
         PROVE  SharedOnEqualTerms' /\ AliasesResolve'
    BY <2>1, <2>11 DEF CloseStop
  <2>12. CASE EndClose
    <3>1. \A l \in Lease : claim'[l] = None
      BY <2>12 DEF EndClose
    <3> QED
      BY <2>12, <3>1, EmptyType DEF EndClose, SharedOnEqualTerms, AliasesResolve, Held
  <2>13. CASE UNCHANGED vars
    BY <2>1, <2>13 DEF vars
  <2> QED
    BY <2>2, <2>3, <2>4, <2>5, <2>6, <2>7, <2>8, <2>9, <2>10, <2>11, <2>12,
       <2>13 DEF Next
<1> QED
  BY <1>1, <1>2, TrackingInvariant, PTL DEF Spec

---------------------------------------------------------------------------
(* Counts and claims.                                                      *)

\* A table that does not exist holds nothing.
NoTableNoRecords == table = "none" => Held = {}

Counting ==
  /\ NoTableNoRecords
  /\ NeverOvercounts
  /\ CountsTheClaims

\* There are finitely many leases to count.
LEMMA FiniteClaims ==
  ASSUME TypeOK, NEW h
  PROVE  /\ IsFiniteSet(live) /\ IsFiniteSet(LiveOn(h)) /\ IsFiniteSet(CountedOn(h))
         /\ Cardinality(LiveOn(h)) \in Nat /\ Cardinality(CountedOn(h)) \in Nat
         /\ CountedOn(h) \subseteq LiveOn(h) /\ LiveOn(h) \subseteq live
<1>1. LiveOn(h) \in SUBSET Lease /\ CountedOn(h) \in SUBSET Lease
      /\ live \in SUBSET Lease
  BY DEF TypeOK, LiveOn, CountedOn
<1>2. IsFiniteSet(live) /\ IsFiniteSet(LiveOn(h)) /\ IsFiniteSet(CountedOn(h))
  BY <1>1, FS_Subset, ConstantsOK
<1> QED
  BY <1>2, FS_CardinalityType DEF LiveOn, CountedOn

\* Putting one element in the place of another does not change a cardinality.
LEMMA SameSize ==
  ASSUME NEW S, IsFiniteSet(S), NEW x \in S, NEW y, y \notin S
  PROVE  Cardinality((S \ {x}) \cup {y}) = Cardinality(S)
<1>1. IsFiniteSet(S \ {x}) /\ Cardinality(S \ {x}) = Cardinality(S) - 1
  BY FS_RemoveElement
<1>2. Cardinality((S \ {x}) \cup {y}) = Cardinality(S \ {x}) + 1
  BY <1>1, FS_AddElement
<1> QED
  BY <1>1, <1>2, FS_CardinalityType

\* A new lease is one more claim on its handle.
LEMMA EnrollCounts ==
  ASSUME TypeOK, NEW l \in Lease, l \notin live, NEW h \in Handle,
         NEW t \in Terms, Enroll(l, h, t)
  PROVE  /\ Cardinality(LiveOn(h)') = Cardinality(LiveOn(h)) + 1
         /\ Cardinality(CountedOn(h)') = Cardinality(CountedOn(h)) + 1
         /\ \A x \in Handle \ {h} : LiveOn(x)' = LiveOn(x)
                                    /\ CountedOn(x)' = CountedOn(x)
<1>1. t # None
  BY ConstantsOK
<1>2. LiveOn(h)' = LiveOn(h) \cup {l} /\ l \notin LiveOn(h)
  BY DEF TypeOK, Enroll, LiveOn
<1>3. CountedOn(h)' = CountedOn(h) \cup {l} /\ l \notin CountedOn(h)
  BY <1>1, <1>2 DEF TypeOK, Enroll, CountedOn, LiveOn
<1>4. \A x \in Handle \ {h} : LiveOn(x)' = LiveOn(x)
  BY DEF TypeOK, Enroll, LiveOn
<1>5. \A x \in Handle \ {h} : CountedOn(x)' = CountedOn(x)
  BY <1>4 DEF TypeOK, Enroll, CountedOn, LiveOn
<1> QED
  BY <1>2, <1>3, <1>4, <1>5, FiniteClaims, FS_AddElement

\* Taking over, after the receiver's own claim was withdrawn, is a renaming.
LEMMA TakeOverCounts ==
  ASSUME TypeOK, NEW dst \in Lease, NEW src \in live, dst # src,
         TakeOver(dst, src, live \ {dst}), NEW h \in Handle
  PROVE  /\ Cardinality(LiveOn(h)') = Cardinality(LiveOn(h) \ {dst})
         /\ Cardinality(CountedOn(h)') = Cardinality(CountedOn(h) \ {dst})
<1>1. \A l \in Lease :
        /\ lease'[l] = IF l = src THEN None
                       ELSE IF l = dst THEN lease[src] ELSE lease[l]
        /\ claim'[l] = IF l = src THEN None
                       ELSE IF l = dst THEN claim[src] ELSE claim[l]
  BY DEF TakeOver, TypeOK
<1>2. live' = ((live \ {dst}) \ {src}) \cup {dst}
  BY DEF TakeOver, Rebind
<1>3. live \subseteq Lease
  BY DEF TypeOK
<1> DEFINE L == LiveOn(h) \ {dst}
           C == CountedOn(h) \ {dst}
<1>4. LiveOn(h)' = IF src \in L THEN (L \ {src}) \cup {dst} ELSE L
  BY <1>1, <1>2, <1>3 DEF LiveOn
<1>5. CountedOn(h)' = IF src \in C THEN (C \ {src}) \cup {dst} ELSE C
  BY <1>1, <1>2, <1>3 DEF CountedOn, LiveOn
<1>6. IsFiniteSet(L) /\ IsFiniteSet(C) /\ dst \notin L /\ dst \notin C
  BY FiniteClaims, FS_RemoveElement
<1> HIDE DEF L, C
<1>7. Cardinality(LiveOn(h)') = Cardinality(L)
  BY <1>4, <1>6, SameSize
<1>8. Cardinality(CountedOn(h)') = Cardinality(C)
  BY <1>5, <1>6, SameSize
<1> QED
  BY <1>7, <1>8 DEF L, C

\* What release_one leaves, seen from the leases other than the one it was
\* called for: their counts still do not exceed, or are, their numbers.
LEMMA ReleaseCounts ==
  ASSUME TypeOK, table = "open", NeverOvercounts, CountsTheClaims,
         NEW l \in live, lease[l] \in Handle,
         \/ ReleaseAtOnce(lease[l])
         \/ /\ IsLast(lease[l])
            /\ Held' = Held \ {lease[l]}
            /\ \A x \in Held' : records'[x] = records[x]
  PROVE  /\ \A x \in Held' :
              records'[x].count <= Cardinality(CountedOn(x) \ {l})
         /\ "force_detach" \notin Permit =>
              \A x \in Handle :
                Cardinality(LiveOn(x) \ {l})
                  = IF x \in Held' THEN records'[x].count ELSE 0
<1> DEFINE h == lease[l]
<1>1. l \in LiveOn(h) /\ \A x : x # h => l \notin LiveOn(x) /\ l \notin CountedOn(x)
  BY DEF LiveOn, CountedOn
<1>2. \A x \in Handle \ {h} : LiveOn(x) \ {l} = LiveOn(x)
                              /\ CountedOn(x) \ {l} = CountedOn(x)
  BY <1>1
<1>3. /\ Cardinality(LiveOn(h) \ {l}) = Cardinality(LiveOn(h)) - 1
      /\ Cardinality(CountedOn(h) \ {l}) >= Cardinality(CountedOn(h)) - 1
      /\ Cardinality(LiveOn(h)) \in Nat /\ Cardinality(CountedOn(h)) \in Nat
      /\ Cardinality(LiveOn(h) \ {l}) \in Nat
      /\ Cardinality(CountedOn(h) \ {l}) \in Nat
  BY <1>1, FiniteClaims, FS_RemoveElement, FS_CardinalityType
<1>4. \A x \in Held : records[x].count \in Nat \ {0} /\ x \in Handle
  BY DEF TypeOK, Record
<1>5. CASE h \notin Held /\ UNCHANGED records
  <2>1. Held' = Held
    BY <1>5 DEF Held
  <2>2. "force_detach" \notin Permit => FALSE
    BY <1>3, <1>5 DEF CountsTheClaims
  <2> QED
    BY <1>2, <1>4, <1>5, <2>1, <2>2 DEF NeverOvercounts
<1>6. CASE h \in Held /\ records[h].count > 1 /\ CountDown(h)
  <2>1. /\ Held' = Held
        /\ \A x \in Held \ {h} : records'[x] = records[x]
        /\ records'[h].count = records[h].count - 1
    BY <1>6, CountType
  <2> HIDE DEF h
  <2>2. records'[h].count <= Cardinality(CountedOn(h) \ {l})
    BY <1>3, <1>4, <1>6, <2>1 DEF NeverOvercounts
  <2>3. "force_detach" \notin Permit =>
          Cardinality(LiveOn(h) \ {l}) = records'[h].count
    BY <1>3, <1>4, <1>6, <2>1 DEF CountsTheClaims
  <2>4. \A x \in Held \ {h} :
          records'[x].count <= Cardinality(CountedOn(x) \ {l})
    BY <1>2, <1>4, <2>1 DEF NeverOvercounts
  <2>5. "force_detach" \notin Permit =>
          \A x \in Handle \ {h} :
            Cardinality(LiveOn(x) \ {l})
              = IF x \in Held' THEN records'[x].count ELSE 0
    BY <1>2, <2>1 DEF CountsTheClaims
  <2> QED
    BY <1>6, <2>1, <2>2, <2>3, <2>4, <2>5
<1>7. CASE /\ IsLast(h)
           /\ Held' = Held \ {h}
           /\ \A x \in Held' : records'[x] = records[x]
  <2> HIDE DEF h
  <2>1. "force_detach" \notin Permit => Cardinality(LiveOn(h) \ {l}) = 0
    BY <1>3, <1>4, <1>7 DEF CountsTheClaims, IsLast
  <2>2. "force_detach" \notin Permit =>
          \A x \in Handle \ {h} :
            Cardinality(LiveOn(x) \ {l})
              = IF x \in Held' THEN records'[x].count ELSE 0
    BY <1>2, <1>7 DEF CountsTheClaims
  <2>3. \A x \in Held' : records'[x].count <= Cardinality(CountedOn(x) \ {l})
    BY <1>2, <1>4, <1>7 DEF NeverOvercounts
  <2> QED
    BY <1>7, <2>1, <2>2, <2>3
<1> QED
  BY <1>5, <1>6, <1>7 DEF ReleaseAtOnce

(* The counts are right: never more than the claims they stand for, under  *)
(* every latitude of the environment, and equal to the number of leases as *)
(* long as nobody detaches the process by force.                           *)
THEOREM CountsAreRight == Spec => [](NeverOvercounts /\ CountsTheClaims)
<1>1. Init => Counting
  BY EmptyType DEF Init, Counting, NoTableNoRecords, NeverOvercounts,
                   CountsTheClaims, Held
<1>2. Sharing /\ Counting /\ [Next]_vars => Counting'
  <2> SUFFICES ASSUME Sharing, Counting, [Next]_vars PROVE Counting'
    OBVIOUS
  <2> USE DEF Counting
  <2>0. TypeOK /\ Tracking
    BY DEF Sharing, Tracking
  <2>a. CASE table' = "closing"
    BY <2>a DEF NoTableNoRecords, NeverOvercounts, CountsTheClaims
  <2>b. SUFFICES ASSUME table' # "closing" PROVE Counting'
    BY <2>a
  <2>1. CASE UNCHANGED <<table, records, live, lease, claim>>
    BY <2>1 DEF NoTableNoRecords, NeverOvercounts, CountsTheClaims, Held,
                LiveOn, CountedOn
  <2>2. CASE Construct
    <3>1. /\ Held = {} /\ live = {}
          /\ UNCHANGED <<records, live, lease, claim>> /\ table' = "open"
      BY <2>0, <2>2 DEF Construct, NoTableNoRecords, Tracking, NoDanglingLease
    <3>2. \A h : LiveOn(h)' = {} /\ Held' = {}
      BY <3>1 DEF LiveOn, Held
    <3> QED
      BY <3>1, <3>2, FS_EmptySet DEF NoTableNoRecords, NeverOvercounts, CountsTheClaims
  <2>3. ASSUME NEW r \in Relation, NEW t \in Terms, Acquire(r, t) PROVE Counting'
    <3>1. CASE AcquireRefused(r, t)
      BY <2>1, <3>1 DEF AcquireRefused, vars
    <3>2. CASE AcquireFailed(r)
      BY <2>1, <3>2 DEF AcquireFailed
    <3>3. ASSUME NEW h \in Handle, AcquireConflict(r, t, h) PROVE Counting'
      BY <2>1, <3>3 DEF AcquireConflict
    <3>4. ASSUME NEW l \in Lease, NEW h \in Held,
                 CountUp(h), Enroll(l, h, t), Vacant(l),
                 table = "open", table' = "open"
          PROVE  Counting'
      <4>1. l \notin live /\ h \in Handle
        BY <2>0, <3>4, VacantIsFree DEF TypeOK
      <4>2. /\ Held' = Held
            /\ \A x \in Held \ {h} : records'[x] = records[x]
            /\ records'[h].count = records[h].count + 1
            /\ records[h].count \in Nat
        BY <2>0, <3>4, CountType DEF Record
      <4>3. /\ Cardinality(LiveOn(h)') = Cardinality(LiveOn(h)) + 1
            /\ Cardinality(CountedOn(h)') = Cardinality(CountedOn(h)) + 1
            /\ \A x \in Handle \ {h} : LiveOn(x)' = LiveOn(x)
                                       /\ CountedOn(x)' = CountedOn(x)
        BY <2>0, <3>4, <4>1, EnrollCounts
      <4>4. Cardinality(LiveOn(h)) \in Nat /\ Cardinality(CountedOn(h)) \in Nat
        BY <2>0, FiniteClaims
      <4>5. NeverOvercounts'
        BY <2>0, <3>4, <4>2, <4>3, <4>4 DEF NeverOvercounts, TypeOK
      <4>6. CountsTheClaims'
        BY <3>4, <4>2, <4>3, <4>4 DEF CountsTheClaims
      <4> QED
        BY <3>4, <4>5, <4>6 DEF NoTableNoRecords
    <3>5. ASSUME NEW l \in Lease, AcquireShared(r, t, l) PROVE Counting'
      BY <2>b, <3>4, <3>5 DEF AcquireShared, Remembered, Callable
    <3>6. ASSUME NEW l \in Lease, NEW h \in Handle, AcquireAlias(r, t, l, h)
          PROVE  Counting'
      BY <2>b, <3>4, <3>6 DEF AcquireAlias, Callable
    <3>7. ASSUME NEW l \in Lease, NEW h \in Handle, AcquireFirst(r, t, l, h)
          PROVE  Counting'
      <4>1. /\ l \notin live /\ table = "open" /\ table' = "open"
            /\ Enroll(l, h, t) /\ h \notin Held
        BY <2>0, <2>b, <3>7, VacantIsFree DEF AcquireFirst, Callable
      <4>2. /\ Held' = Held \cup {h}
            /\ \A x \in Held : records'[x] = records[x]
            /\ records'[h].count = 1
        BY <3>7, <4>1 DEF AcquireFirst, Put, Held
      <4>3. /\ Cardinality(LiveOn(h)') = Cardinality(LiveOn(h)) + 1
            /\ Cardinality(CountedOn(h)') = Cardinality(CountedOn(h)) + 1
            /\ \A x \in Handle \ {h} : LiveOn(x)' = LiveOn(x)
                                       /\ CountedOn(x)' = CountedOn(x)
        BY <2>0, <4>1, EnrollCounts
      <4>4. Cardinality(LiveOn(h)) \in Nat /\ Cardinality(CountedOn(h)) \in Nat
        BY <2>0, FiniteClaims
      <4>5. NeverOvercounts'
        BY <2>0, <4>1, <4>2, <4>3, <4>4 DEF NeverOvercounts, TypeOK
      <4>6. CountsTheClaims'
        BY <4>1, <4>2, <4>3, <4>4 DEF CountsTheClaims
      <4> QED
        BY <4>1, <4>5, <4>6 DEF NoTableNoRecords
    <3> QED
      BY <2>3, <3>1, <3>2, <3>3, <3>5, <3>6, <3>7 DEF Acquire
  <2>4. ASSUME NEW l \in Lease, Destroy(l) PROVE Counting'
    <3>1. /\ table = "open" /\ table' = "open"
          /\ l \in live /\ lease[l] \in Handle
          /\ live' = live \ {l}
          /\ \A x \in Lease : x # l => lease'[x] = lease[x]
      BY <2>0, <2>b, <2>4, EngagedIsLive
         DEF Destroy, Callable, Engaged, Tracking, TypeOK
    <3>2. \A x : LiveOn(x)' = LiveOn(x) \ {l}
      BY <2>0, <3>1 DEF LiveOn, TypeOK
    <3>3. CASE ReleaseAtOnce(lease[l]) /\ claim' = [claim EXCEPT ![l] = None]
      <4>1. \A x : CountedOn(x)' = CountedOn(x) \ {l}
        BY <2>0, <3>1, <3>2, <3>3 DEF CountedOn, LiveOn, TypeOK
      <4>2. /\ \A x \in Held' :
                 records'[x].count <= Cardinality(CountedOn(x) \ {l})
            /\ "force_detach" \notin Permit =>
                 \A x \in Handle :
                   Cardinality(LiveOn(x) \ {l})
                     = IF x \in Held' THEN records'[x].count ELSE 0
        BY <2>0, <3>1, <3>3, ReleaseCounts
      <4> QED
        BY <3>1, <3>2, <4>1, <4>2
           DEF NoTableNoRecords, NeverOvercounts, CountsTheClaims
    <3>4. CASE IsLast(lease[l]) /\ Retire(lease[l], None, None)
               /\ claim' = Unclaim(lease[l])
      <4>1. /\ Held' = Held \ {lease[l]}
            /\ \A x \in Held' : records'[x] = records[x]
        BY <2>0, <3>4, RetireType DEF IsLast
      <4>2. /\ \A x \in Held' :
                 records'[x].count <= Cardinality(CountedOn(x) \ {l})
            /\ "force_detach" \notin Permit =>
                 \A x \in Handle :
                   Cardinality(LiveOn(x) \ {l})
                     = IF x \in Held' THEN records'[x].count ELSE 0
        BY <2>0, <3>1, <3>4, <4>1, ReleaseCounts
      <4>3. \A x \in Held' : CountedOn(x)' = CountedOn(x) \ {l}
        BY <2>0, <3>1, <3>2, <3>4, <4>1 DEF CountedOn, LiveOn, Unclaim, TypeOK
      <4> QED
        BY <3>1, <3>2, <4>2, <4>3
           DEF NoTableNoRecords, NeverOvercounts, CountsTheClaims
    <3> QED
      BY <2>4, <3>3, <3>4 DEF Destroy
  <2>5. ASSUME NEW dst \in Lease, NEW src \in Lease, Move(dst, src) PROVE Counting'
    <3>1. /\ table = "open" /\ table' = "open" /\ UNCHANGED records
          /\ dst # src /\ dst \notin live /\ src \in live
          /\ TakeOver(dst, src, live)
      BY <2>0, <2>b, <2>5, EngagedIsLive, VacantIsFree DEF Move, Callable
    <3>2. live \ {dst} = live /\ \A h : /\ LiveOn(h) \ {dst} = LiveOn(h)
                                        /\ CountedOn(h) \ {dst} = CountedOn(h)
      BY <3>1 DEF LiveOn, CountedOn
    <3>3. \A h \in Handle : /\ Cardinality(LiveOn(h)') = Cardinality(LiveOn(h))
                            /\ Cardinality(CountedOn(h)') = Cardinality(CountedOn(h))
      BY <2>0, <3>1, <3>2, TakeOverCounts
    <3> QED
      BY <2>0, <3>1, <3>3
         DEF NoTableNoRecords, NeverOvercounts, CountsTheClaims, Held, TypeOK
  <2>6. ASSUME NEW dst \in Lease, NEW src \in Lease, MoveAssign(dst, src)
        PROVE  Counting'
    <3>1. /\ table = "open" /\ table' = "open"
          /\ dst # src /\ dst \in live /\ src \in live
          /\ lease[dst] \in Handle /\ dst # None /\ src # None
      BY <2>0, <2>b, <2>6, EngagedIsLive, ConstantsOK
         DEF MoveAssign, Callable, Engaged, TypeOK
    <3>2. CASE ReleaseAtOnce(lease[dst]) /\ TakeOver(dst, src, live \ {dst})
      <4>1. /\ \A x \in Held' :
                 records'[x].count <= Cardinality(CountedOn(x) \ {dst})
            /\ "force_detach" \notin Permit =>
                 \A x \in Handle :
                   Cardinality(LiveOn(x) \ {dst})
                     = IF x \in Held' THEN records'[x].count ELSE 0
        BY <2>0, <3>1, <3>2, ReleaseCounts
      <4>2. \A h \in Handle :
              /\ Cardinality(LiveOn(h)') = Cardinality(LiveOn(h) \ {dst})
              /\ Cardinality(CountedOn(h)') = Cardinality(CountedOn(h) \ {dst})
        BY <2>0, <3>1, <3>2, TakeOverCounts
      <4>3. Held' \subseteq Handle
        BY <2>0, <3>1, <3>2, ReleaseType DEF TypeOK
      <4> QED
        BY <3>1, <4>1, <4>2, <4>3
           DEF NoTableNoRecords, NeverOvercounts, CountsTheClaims
    <3>3. CASE IsLast(lease[dst]) /\ Retire(lease[dst], dst, src)
               /\ live' = live \ {dst} /\ claim' = Unclaim(lease[dst])
               /\ UNCHANGED lease
      <4>1. /\ Held' = Held \ {lease[dst]}
            /\ \A x \in Held' : records'[x] = records[x]
        BY <2>0, <3>1, <3>3, RetireType DEF IsLast
      <4>2. /\ \A x \in Held' :
                 records'[x].count <= Cardinality(CountedOn(x) \ {dst})
            /\ "force_detach" \notin Permit =>
                 \A x \in Handle :
                   Cardinality(LiveOn(x) \ {dst})
                     = IF x \in Held' THEN records'[x].count ELSE 0
        BY <2>0, <3>1, <3>3, <4>1, ReleaseCounts
      <4>3. \A x : LiveOn(x)' = LiveOn(x) \ {dst}
        BY <3>3 DEF LiveOn
      <4>4. \A x \in Held' : CountedOn(x)' = CountedOn(x) \ {dst}
        BY <2>0, <3>1, <3>3, <4>1, <4>3 DEF CountedOn, LiveOn, Unclaim, TypeOK
      <4> QED
        BY <3>1, <4>2, <4>3, <4>4
           DEF NoTableNoRecords, NeverOvercounts, CountsTheClaims
    <3> QED
      BY <2>6, <3>2, <3>3 DEF MoveAssign
  <2>7. ASSUME NEW h \in Handle, ForceDetach(h) PROVE Counting'
    <3>1. /\ table' = "open" /\ table = "open" /\ "force_detach" \in Permit
          /\ Held' = Held \ {h}
          /\ \A x \in Held' : records'[x] = records[x]
      BY <2>0, <2>b, <2>7, RetireType DEF ForceDetach, Callable
    <3>2. \A x \in Held' : CountedOn(x)' = CountedOn(x)
      BY <2>0, <2>7, <3>1 DEF ForceDetach, CountedOn, LiveOn, Unclaim, TypeOK
    <3> QED
      BY <3>1, <3>2 DEF NoTableNoRecords, NeverOvercounts, CountsTheClaims
  <2>8. CASE SendStop
    BY <2>1, <2>8 DEF SendStop
  <2>9. CASE EndStop
    <3>1. /\ table = "open" /\ UNCHANGED <<table, records>>
          /\ Len(stops) \in DOMAIN stops /\ Top \in Frame
      BY <2>0, <2>b, <2>9, PopFrame, ElementOfSeq, LenProperties
         DEF EndStop, Top, TypeOK, Tracking, NoDanglingLease
    <3>2. CASE Top.dst = None
      BY <2>1, <2>9, <3>1, <3>2 DEF EndStop
    <3>3. CASE Top.dst # None
      <4> DEFINE dst == Top.dst
                 src == Top.src
      <4>1. dst \in Lease /\ src \in Lease
        BY <3>1, <3>3 DEF Frame
      <4>2. dst # src /\ dst \notin live
        BY <2>0, <3>1, <3>3
           DEF Tracking, Assignments, NoDanglingLease, Receiving, Top
      <4>3. live \ {dst} = live /\ \A h : /\ LiveOn(h) \ {dst} = LiveOn(h)
                                          /\ CountedOn(h) \ {dst} = CountedOn(h)
        BY <4>2 DEF LiveOn, CountedOn
      <4>4. TakeOver(dst, src, live)
        BY <2>9, <3>3 DEF EndStop
      <4> HIDE DEF dst, src
      <4>5. \A h \in Handle :
              /\ Cardinality(LiveOn(h)') = Cardinality(LiveOn(h))
              /\ Cardinality(CountedOn(h)') = Cardinality(CountedOn(h))
        <5>1. CASE src \in live
          BY <2>0, <4>1, <4>2, <4>3, <4>4, <5>1, TakeOverCounts
        <5>2. CASE src \notin live
          <6>1. /\ live' = live
                /\ \A l \in live : lease'[l] = lease[l] /\ claim'[l] = claim[l]
            BY <2>0, <4>1, <4>2, <4>4, <5>2 DEF TakeOver, Rebind, TypeOK
          <6> QED
            BY <6>1 DEF LiveOn, CountedOn
        <5> QED
          BY <5>1, <5>2
      <4> QED
        BY <2>0, <3>1, <4>5
           DEF NoTableNoRecords, NeverOvercounts, CountsTheClaims, Held, TypeOK
    <3> QED
      BY <3>2, <3>3
  <2>10. CASE BeginClose
    BY <2>10 DEF BeginClose, NoTableNoRecords, NeverOvercounts, CountsTheClaims
  <2>11. ASSUME NEW h \in Handle, CloseStop(h) PROVE Counting'
    BY <2>b, <2>11 DEF CloseStop
  <2>12. CASE EndClose
    BY <2>12, EmptyType
       DEF EndClose, NoTableNoRecords, NeverOvercounts, CountsTheClaims, Held
  <2>13. CASE UNCHANGED vars
    BY <2>1, <2>13 DEF vars
  <2> QED
    BY <2>2, <2>3, <2>4, <2>5, <2>6, <2>7, <2>8, <2>9, <2>10, <2>11, <2>12,
       <2>13 DEF Next
<1>3. Spec => []Sharing
  BY TrackingInvariant, ClaimsShareTheirTerms, PTL DEF Sharing, Tracking
<1>4. Counting => NeverOvercounts /\ CountsTheClaims
  BY DEF Counting
<1> QED
  BY <1>1, <1>2, <1>3, <1>4, PTL DEF Spec

---------------------------------------------------------------------------
(* Two halves of the above, for themselves.                                *)

(* The stale alias that acquire repairs "cannot happen through this        *)
(* class's own paths": the memo's spellings are those of the records, also *)
(* when acquires fail, or are refused after their start.                   *)
COROLLARY MemoResolves == Spec => []AliasesResolve
BY ClaimsShareTheirTerms, PTL

(* No record outlives its claims, under every latitude the environment     *)
(* has, the escape hatch included: the last holder to let go reaches the   *)
(* stop (release_one).                                                     *)
COROLLARY RecordsAreGivenUp == Spec => []NeverOvercounts
BY CountsAreRight, PTL

---------------------------------------------------------------------------
(* The other side: the engine's attachments, the stops on their way to it, *)
(* and the status subscribers.                                             *)

\* The retirements in progress on a stream.
FramesOn(h) == {i \in Retirements : stops[i].handle = h}

\* Only a table under destruction stops its records in a loop.
ClosingOnly == closing # {} => table = "closing"

\* Without calls from a StopFn that has not sent its stop, the call whose stop
\* is to come is the innermost; the record is gone, or past in the loop of the
\* destructor.
UnsentOnTop ==
  "early_call" \notin Permit =>
    \A i \in DOMAIN stops : ~stops[i].sent =>
      /\ i = Len(stops)
      /\ stops[i].handle \notin closing
      /\ i \in Retirements => stops[i].handle \notin Held

Attachments ==
  /\ NoTableNoRecords /\ ClosingOnly /\ UnsentOnTop
  /\ HeldIsAttached /\ NothingLeftAttached /\ OneSubscriberEach

---------------------------------------------------------------------------
(* The kinds of steps there are, as far as the engine's side is concerned. *)

Idle == UNCHANGED <<Held, stops, closing, attached, subs>>

\* A start has taken effect, for a stream the table holds then.
Started(h) ==
  /\ Callable /\ table' = table
  /\ attached' = attached \cup {h} /\ UNCHANGED stops
  /\ \/ h \in Held /\ UNCHANGED <<Held, subs, closing>>
     \/ /\ h \notin Held /\ Held' = Held \cup {h} /\ VisitedLater(h)
        /\ subs' = [subs EXCEPT ![h] = IF Subscribes THEN @ + 1 ELSE @]

\* A start has taken effect that the table takes for failed.
StartedLate(h) ==
  /\ Callable /\ table' = table /\ "start_late" \in Permit
  /\ attached' = attached \cup {h} /\ UNCHANGED <<Held, stops, closing, subs>>

\* A record is retired, its only claim given up or by force.
Retired(h) ==
  /\ Callable /\ table' = table
  /\ records[h].count = 1 \/ "force_detach" \in Permit
  /\ h \in Held /\ Held' = Held \ {h}
  /\ \E f \in Frame : /\ f.handle = h /\ ~f.sent
                      /\ stops' = Append(stops, f)
  /\ closing' = closing \ {h} /\ UNCHANGED <<attached, subs>>

Kind ==
  \/ Idle /\ table' = table
  \/ Idle /\ table = "none" /\ table' = "open"
  \/ \E h \in Handle : Started(h) \/ StartedLate(h) \/ Retired(h)
  \/ SendStop
  \/ EndStop
  \/ BeginClose
  \/ \E h \in Handle : CloseStop(h)
  \/ EndClose

LEMMA RetireIsRetired ==
  ASSUME TypeOK, Callable, NEW h \in Held,
         NEW dst \in Lease \cup {None}, NEW src \in Lease \cup {None},
         dst = None <=> src = None, Retire(h, dst, src),
         records[h].count = 1 \/ "force_detach" \in Permit,
         UNCHANGED <<table, engine>>
  PROVE  h \in Handle /\ Retired(h)
<1> DEFINE f == [handle |-> h, sent |-> FALSE, dst |-> dst, src |-> src]
<1>1. h \in Handle /\ f \in Frame /\ f.handle = h /\ ~f.sent
  BY DEF TypeOK, Frame
<1>2. stops' = Append(stops, f) /\ closing' = closing \ {h}
  BY DEF Retire
<1>3. Held' = Held \ {h}
  BY RetireType
<1> HIDE DEF f
<1> QED
  BY <1>1, <1>2, <1>3 DEF Retired, engine

\* Every step of the table is of one of these kinds.
LEMMA StepKind ==
  ASSUME TypeOK, [Next]_vars
  PROVE  Kind
<1>1. CASE UNCHANGED vars
  BY <1>1 DEF vars, Kind, Idle, Held
<1>2. CASE Construct
  BY <1>2 DEF Construct, engine, Kind, Idle, Held
<1>3. ASSUME NEW r \in Relation, NEW t \in Terms, Acquire(r, t)
      PROVE  Kind
  <2>1. CASE AcquireRefused(r, t)
    BY <1>1, <2>1 DEF AcquireRefused
  <2>2. CASE AcquireFailed(r)
    BY <2>2, ConstantsOK DEF AcquireFailed, Kind, Idle, StartedLate, Held, ConstantsOK
  <2>3. ASSUME NEW h \in Handle, AcquireConflict(r, t, h) PROVE Kind
    BY <2>3 DEF AcquireConflict, Kind, Started, Held
  <2>4. ASSUME NEW l \in Lease, AcquireShared(r, t, l) PROVE Kind
    BY <2>4, CountType DEF AcquireShared, Remembered, engine, Kind, Idle
  <2>5. ASSUME NEW l \in Lease, NEW h \in Handle, AcquireFirst(r, t, l, h)
        PROVE  Kind
    <3>1. h \notin Held /\ Held' = Held \cup {h}
      BY <2>5 DEF AcquireFirst, Put, Held
    <3> QED
      BY <2>5, <3>1 DEF AcquireFirst, Kind, Started
  <2>6. ASSUME NEW l \in Lease, NEW h \in Handle, AcquireAlias(r, t, l, h)
        PROVE  Kind
    BY <2>6, CountType DEF AcquireAlias, Kind, Started
  <2> QED
    BY <1>3, <2>1, <2>2, <2>3, <2>4, <2>5, <2>6 DEF Acquire
<1>4. ASSUME NEW l \in Lease, Destroy(l) PROVE Kind
  <2>1. lease[l] \in Handle
    BY <1>4 DEF Destroy, Engaged, TypeOK
  <2>2. CASE ReleaseAtOnce(lease[l]) /\ UNCHANGED <<memo, stops, closing>>
    BY <1>4, <2>1, <2>2, ReleaseType DEF Destroy, engine, Kind, Idle
  <2>3. CASE IsLast(lease[l]) /\ Retire(lease[l], None, None)
    BY <1>4, <2>3, RetireIsRetired DEF Destroy, IsLast, Kind
  <2> QED
    BY <1>4, <2>2, <2>3 DEF Destroy
<1>5. ASSUME NEW dst \in Lease, NEW src \in Lease, Move(dst, src) PROVE Kind
  BY <1>5 DEF Move, engine, Kind, Idle, Held
<1>6. ASSUME NEW dst \in Lease, NEW src \in Lease, MoveAssign(dst, src) PROVE Kind
  <2>1. lease[dst] \in Handle /\ dst # None /\ src # None
    BY <1>6, ConstantsOK DEF MoveAssign, Engaged, TypeOK, ConstantsOK
  <2>2. CASE ReleaseAtOnce(lease[dst]) /\ UNCHANGED <<memo, stops, closing>>
    BY <1>6, <2>1, <2>2, ReleaseType DEF MoveAssign, engine, Kind, Idle
  <2>3. CASE IsLast(lease[dst]) /\ Retire(lease[dst], dst, src)
    BY <1>6, <2>1, <2>3, RetireIsRetired DEF MoveAssign, IsLast, Kind
  <2> QED
    BY <1>6, <2>2, <2>3 DEF MoveAssign
<1>7. ASSUME NEW h \in Handle, ForceDetach(h) PROVE Kind
  BY <1>7, RetireIsRetired DEF ForceDetach, Kind
<1> QED
  BY <1>1, <1>2, <1>3, <1>4, <1>5, <1>6, <1>7 DEF Next, Kind

---------------------------------------------------------------------------
(* The stops in progress, by stream.                                       *)

LEMMA FramesFinite ==
  ASSUME TypeOK, NEW h
  PROVE  IsFiniteSet(FramesOn(h)) /\ Cardinality(FramesOn(h)) \in Nat
<1>1. Len(stops) \in Nat /\ DOMAIN stops = 1 .. Len(stops)
  BY LenProperties DEF TypeOK
<1>2. IsFiniteSet(1 .. Len(stops))
  BY <1>1, FS_Interval
<1>3. FramesOn(h) \in SUBSET (1 .. Len(stops))
  BY <1>1 DEF FramesOn, Retirements
<1> QED
  BY <1>2, <1>3, FS_Subset, FS_CardinalityType

\* A retirement begins: one frame more on its stream.
LEMMA FramePushed ==
  ASSUME TypeOK, NEW f \in Frame, stops' = Append(stops, f), table' = table,
         table = "closing" => stops # <<>>, NEW h
  PROVE  Cardinality(FramesOn(h)') =
           Cardinality(FramesOn(h)) + (IF f.handle = h THEN 1 ELSE 0)
<1> DEFINE n == Len(stops) + 1
<1>1. /\ DOMAIN stops' = DOMAIN stops \cup {n} /\ n \notin DOMAIN stops
      /\ \A i \in DOMAIN stops : stops'[i] = stops[i]
      /\ stops'[n] = f
  BY PushFrame DEF TypeOK
<1>2. table = "closing" => n # 1
  BY EmptySeq, LenProperties DEF TypeOK
<1> HIDE DEF n
<1>3. Retirements' = Retirements \cup {n} /\ n \notin Retirements
  BY <1>1, <1>2 DEF Retirements, Visiting
<1>4. FramesOn(h)' = IF f.handle = h THEN FramesOn(h) \cup {n} ELSE FramesOn(h)
  BY <1>1, <1>3 DEF FramesOn, Retirements
<1>5. n \notin FramesOn(h)
  BY <1>1 DEF FramesOn, Retirements
<1>6. /\ Cardinality(FramesOn(h) \cup {n}) = Cardinality(FramesOn(h)) + 1
      /\ Cardinality(FramesOn(h)) \in Nat
  BY <1>5, FramesFinite, FS_AddElement
<1> QED
  BY <1>4, <1>6

\* A StopFn returns: one frame less, if it was a retirement's.
LEMMA FramePopped ==
  ASSUME TypeOK, stops # <<>>, stops' = SubSeq(stops, 1, Len(stops) - 1),
         table' = table, NEW h
  PROVE  Cardinality(FramesOn(h)') =
           Cardinality(FramesOn(h))
             - (IF Len(stops) \in Retirements /\ Top.handle = h THEN 1 ELSE 0)
<1> DEFINE n == Len(stops)
<1>1. /\ n \in DOMAIN stops /\ DOMAIN stops' = DOMAIN stops \ {n}
      /\ \A i \in DOMAIN stops' : stops'[i] = stops[i]
  BY PopFrame DEF TypeOK
<1>2. Top = stops[n]
  BY DEF Top
<1> HIDE DEF n
<1>3. FramesOn(h)' = FramesOn(h) \ {n}
  BY <1>1 DEF FramesOn, Retirements, Visiting
<1>4. n \in FramesOn(h) <=> n \in Retirements /\ Top.handle = h
  BY <1>1, <1>2 DEF FramesOn
<1>5. /\ IsFiniteSet(FramesOn(h)) /\ Cardinality(FramesOn(h)) \in Nat
  BY FramesFinite
<1>6. Cardinality(FramesOn(h) \ {n}) =
        IF n \in FramesOn(h) THEN Cardinality(FramesOn(h)) - 1 ELSE Cardinality(FramesOn(h))
  BY <1>5, FS_RemoveElement
<1> QED
  BY <1>3, <1>4, <1>5, <1>6 DEF n

---------------------------------------------------------------------------
(* The invariant, kind by kind.                                            *)

\* Control is with the table's callers only when every stop has been sent.
LEMMA CallableAllSent ==
  ASSUME TypeOK, UnsentOnTop, Callable, "early_call" \notin Permit
  PROVE  \A i \in DOMAIN stops : stops[i].sent
<1>1. ASSUME NEW i \in DOMAIN stops, ~stops[i].sent
      PROVE  FALSE
  <2>1. i = Len(stops)
    BY <1>1 DEF UnsentOnTop
  <2>2. stops # <<>>
    BY <1>1, EmptySeq
  <2> QED
    BY <1>1, <2>1, <2>2 DEF Callable, Top
<1> QED
  BY <1>1

\* Nobody calls a table that is being destroyed unless "close_call" lets the
\* StopFn do it that the destructor calls.
LEMMA CallableTable ==
  ASSUME Callable
  PROVE  /\ table \in {"open", "closing"}
         /\ table = "open" \/ ("close_call" \in Permit /\ stops # <<>>)
BY DEF Callable

LEMMA StartedAttaches ==
  ASSUME TypeOK, Attachments, NEW h \in Handle, Started(h)
  PROVE  Attachments'
<1>0. closing' = closing \/ (table = "closing" /\ closing' = closing \cup {h})
  BY DEF Started, VisitedLater
<1>1. /\ table' = table /\ table \in {"open", "closing"}
      /\ table = "open" \/ "close_call" \in Permit
      /\ closing' = closing \/ (table = "closing" /\ closing' = closing \cup {h})
  BY <1>0, CallableTable DEF Started
<1>2. stops' = stops /\ Held' = Held \cup {h} /\ attached' = attached \cup {h}
  BY DEF Started
<1>3. NoTableNoRecords' /\ ClosingOnly'
  BY <1>1 DEF Attachments, NoTableNoRecords, ClosingOnly
<1>4. UnsentOnTop'
  BY <1>2, CallableAllSent DEF Attachments, Started, UnsentOnTop
<1>5. HeldIsAttached'
  BY <1>1, <1>2 DEF Attachments, HeldIsAttached
<1>6. NothingLeftAttached'
  BY <1>1, <1>2 DEF Attachments, NothingLeftAttached
<1>7. OneSubscriberEach'
  <2>1. SUFFICES ASSUME Subscribes, NEW x \in Handle
                 PROVE  subs'[x] = (IF x \in Held' THEN 1 ELSE 0)
                                   + Cardinality(FramesOn(x)')
    BY DEF OneSubscriberEach, FramesOn
  <2>2. subs[x] = (IF x \in Held THEN 1 ELSE 0) + Cardinality(FramesOn(x))
    BY <2>1 DEF Attachments, OneSubscriberEach, FramesOn
  <2>3. FramesOn(x)' = FramesOn(x) /\ Cardinality(FramesOn(x)) \in Nat
    BY <1>1, <1>2, FramesFinite DEF FramesOn, Retirements, Visiting
  <2>4. subs'[x] = IF x = h /\ h \notin Held THEN subs[x] + 1 ELSE subs[x]
    BY <2>1 DEF Started, TypeOK
  <2> QED
    BY <1>2, <2>2, <2>3, <2>4
<1> QED
  BY <1>3, <1>4, <1>5, <1>6, <1>7 DEF Attachments

LEMMA StartedLateAttaches ==
  ASSUME TypeOK, Attachments, NEW h \in Handle, StartedLate(h)
  PROVE  Attachments'
<1>1. UNCHANGED <<table, closing, stops, Held, subs>> /\ attached' = attached \cup {h}
      /\ "start_late" \in Permit
  BY DEF StartedLate
<1>2. NoTableNoRecords' /\ ClosingOnly' /\ UnsentOnTop'
  BY <1>1 DEF Attachments, NoTableNoRecords, ClosingOnly, UnsentOnTop,
              Retirements, Visiting
<1>3. HeldIsAttached' /\ NothingLeftAttached' /\ OneSubscriberEach'
  BY <1>1 DEF Attachments, HeldIsAttached, NothingLeftAttached, OneSubscriberEach,
              Retirements, Visiting
<1> QED
  BY <1>2, <1>3 DEF Attachments

LEMMA RetiredAttaches ==
  ASSUME TypeOK, Attachments, NEW h \in Handle, Retired(h)
  PROVE  Attachments'
<1>1. /\ table' = table /\ table \in {"open", "closing"}
      /\ table = "open" \/ ("close_call" \in Permit /\ stops # <<>>)
      /\ closing' = closing \ {h}
  BY CallableTable DEF Retired
<1>2. PICK f \in Frame : f.handle = h /\ ~f.sent /\ stops' = Append(stops, f)
  BY DEF Retired
<1>3. /\ h \in Held /\ Held' = Held \ {h} /\ UNCHANGED <<attached, subs>>
  BY DEF Retired
<1> DEFINE n == Len(stops) + 1
<1>4. /\ DOMAIN stops' = DOMAIN stops \cup {n} /\ Len(stops') = n
      /\ \A i \in DOMAIN stops : stops'[i] = stops[i]
      /\ stops'[n] = f
  BY <1>2, PushFrame DEF TypeOK
<1> HIDE DEF n
<1>5. NoTableNoRecords' /\ ClosingOnly'
  BY <1>1 DEF Attachments, NoTableNoRecords, ClosingOnly
<1>6. UnsentOnTop'
  <2>1. SUFFICES ASSUME "early_call" \notin Permit, NEW i \in DOMAIN stops', ~stops'[i].sent
                 PROVE  /\ i = Len(stops')
                        /\ stops'[i].handle \notin closing'
                        /\ stops'[i].handle \notin Held'
    BY DEF UnsentOnTop
  <2>2. i = n
    BY <1>4, <2>1, CallableAllSent DEF Attachments, Retired
  <2> QED
    BY <1>1, <1>2, <1>3, <1>4, <2>2
<1>7. HeldIsAttached'
  BY <1>1, <1>3 DEF Attachments, HeldIsAttached
<1>8. NothingLeftAttached'
  BY <1>1, <1>2, <1>3, <1>4 DEF Attachments, NothingLeftAttached
<1>9. OneSubscriberEach'
  <2>1. SUFFICES ASSUME Subscribes, NEW x \in Handle
                 PROVE  subs'[x] = (IF x \in Held' THEN 1 ELSE 0)
                                   + Cardinality(FramesOn(x)')
    BY DEF OneSubscriberEach, FramesOn
  <2>2. subs[x] = (IF x \in Held THEN 1 ELSE 0) + Cardinality(FramesOn(x))
    BY <2>1 DEF Attachments, OneSubscriberEach, FramesOn
  <2>3. Cardinality(FramesOn(x)') = Cardinality(FramesOn(x)) + (IF h = x THEN 1 ELSE 0)
    BY <1>1, <1>2, FramePushed
  <2>4. Cardinality(FramesOn(x)) \in Nat
    BY FramesFinite
  <2> QED
    BY <1>3, <2>2, <2>3, <2>4
<1> QED
  BY <1>5, <1>6, <1>7, <1>8, <1>9 DEF Attachments

LEMMA SendStopAttaches ==
  ASSUME TypeOK, Attachments, SendStop
  PROVE  Attachments'
<1>1. /\ UNCHANGED <<table, closing, Held, subs>> /\ StopReaches(Top.handle)
      /\ stops # <<>> /\ stops \in Seq(Frame)
  BY DEF SendStop, Held, TypeOK
<1>2. /\ Len(stops') = Len(stops) /\ DOMAIN stops' = DOMAIN stops
      /\ \A i \in DOMAIN stops : /\ stops'[i].handle = stops[i].handle
                                 /\ stops'[i].sent = (stops[i].sent \/ i = Len(stops))
  BY MarkTop DEF SendStop, TypeOK
<1>3. Len(stops) \in DOMAIN stops /\ ~Top.sent
  BY EmptySeq, LenProperties DEF SendStop, TypeOK
<1>4. Retirements' = Retirements
  BY <1>1, <1>2 DEF Retirements, Visiting
<1>5. NoTableNoRecords' /\ ClosingOnly'
  BY <1>1 DEF Attachments, NoTableNoRecords, ClosingOnly
<1>6. UnsentOnTop'
  BY <1>1, <1>2, <1>4 DEF Attachments, UnsentOnTop
<1>7. HeldIsAttached'
  <2>1. SUFFICES ASSUME "early_call" \notin Permit
                 PROVE  /\ table = "open" => Held \subseteq attached'
                        /\ closing \subseteq Held \cap attached'
    BY <1>1 DEF HeldIsAttached
  <2>2. /\ Top.handle \notin closing
        /\ table = "open" => Top.handle \notin Held
    BY <1>3, <2>1 DEF Attachments, UnsentOnTop, Top, Retirements, Visiting
  <2> QED
    BY <1>1, <2>1, <2>2 DEF Attachments, HeldIsAttached, StopReaches
<1>8. NothingLeftAttached'
  <2>1. SUFFICES ASSUME Permit \cap {"start_late", "stop_lost", "close_call"} = {},
                        NEW h \in attached'
                 PROVE  \/ h \in Held /\ (table = "closing" => h \in closing)
                        \/ \E i \in DOMAIN stops' : stops'[i].handle = h /\ ~stops'[i].sent
    BY <1>1 DEF NothingLeftAttached
  <2>2. h \in attached /\ h # Top.handle
    BY <1>1, <2>1 DEF StopReaches
  <2>3. \/ h \in Held /\ (table = "closing" => h \in closing)
        \/ \E i \in DOMAIN stops : stops[i].handle = h /\ ~stops[i].sent
    BY <2>1, <2>2 DEF Attachments, NothingLeftAttached
  <2> QED
    BY <1>2, <2>2, <2>3 DEF Top
<1>9. OneSubscriberEach'
  <2>1. \A x : FramesOn(x)' = FramesOn(x)
    BY <1>2, <1>4 DEF FramesOn, Retirements
  <2> QED
    BY <1>1, <2>1 DEF Attachments, OneSubscriberEach, FramesOn
<1> QED
  BY <1>5, <1>6, <1>7, <1>8, <1>9 DEF Attachments

LEMMA EndStopAttaches ==
  ASSUME TypeOK, Attachments, EndStop
  PROVE  Attachments'
<1>1. /\ UNCHANGED <<table, closing, Held, attached>>
      /\ Undeclare({Top.handle : i \in {Len(stops)} \cap Retirements})
      /\ stops \in Seq(Frame) /\ stops # <<>>
  BY DEF EndStop, Held, TypeOK
<1>2. /\ Len(stops) \in DOMAIN stops /\ DOMAIN stops' = DOMAIN stops \ {Len(stops)}
      /\ \A i \in DOMAIN stops' : stops'[i] = stops[i]
      /\ Top.sent
  BY PopFrame DEF EndStop, TypeOK
<1>3. Retirements' = Retirements \ {Len(stops)}
  BY <1>1, <1>2 DEF Retirements, Visiting
<1>4. NoTableNoRecords' /\ ClosingOnly'
  BY <1>1 DEF Attachments, NoTableNoRecords, ClosingOnly
<1>5. UnsentOnTop'
  <2>1. ASSUME "early_call" \notin Permit, NEW i \in DOMAIN stops', ~stops'[i].sent
        PROVE  FALSE
    BY <1>2, <2>1 DEF Attachments, UnsentOnTop
  <2> QED
    BY <2>1 DEF UnsentOnTop
<1>6. HeldIsAttached'
  BY <1>1 DEF Attachments, HeldIsAttached
<1>7. NothingLeftAttached'
  BY <1>1, <1>2 DEF Attachments, NothingLeftAttached, Top
<1>8. OneSubscriberEach'
  <2>1. SUFFICES ASSUME Subscribes, NEW x \in Handle
                 PROVE  subs'[x] = (IF x \in Held' THEN 1 ELSE 0)
                                   + Cardinality(FramesOn(x)')
    BY DEF OneSubscriberEach, FramesOn
  <2>2. subs[x] = (IF x \in Held THEN 1 ELSE 0) + Cardinality(FramesOn(x))
    BY <2>1 DEF Attachments, OneSubscriberEach, FramesOn
  <2>3. Cardinality(FramesOn(x)') =
          Cardinality(FramesOn(x))
            - (IF Len(stops) \in Retirements /\ Top.handle = x THEN 1 ELSE 0)
    BY <1>1, FramePopped DEF EndStop
  <2>4. Cardinality(FramesOn(x)) \in Nat
    BY FramesFinite
  <2>5. subs'[x] = IF Len(stops) \in Retirements /\ x = Top.handle
                   THEN subs[x] - 1 ELSE subs[x]
    BY <1>1, <2>1 DEF Undeclare
  <2> QED
    BY <1>1, <2>2, <2>3, <2>4, <2>5
<1> QED
  BY <1>4, <1>5, <1>6, <1>7, <1>8 DEF Attachments

\* The destructor: all records are to be stopped, one by one, while they
\* and their subscribers stand.
LEMMA ClosingAttaches ==
  ASSUME TypeOK, Attachments,
         BeginClose \/ EndClose \/ \E h \in Handle : CloseStop(h)
  PROVE  Attachments'
<1>0. stops = <<>> /\ DOMAIN stops = {} /\ Retirements = {}
      /\ \A x : FramesOn(x) = {}
  BY EmptySeq DEF BeginClose, EndClose, CloseStop, Retirements, FramesOn
<1>1. CASE BeginClose
  <2>1. /\ table = "open" /\ table' = "closing" /\ closing' = Held
        /\ Held' = Held /\ UNCHANGED <<stops, attached, subs>>
    BY <1>1 DEF BeginClose, Held, engine
  <2>2. Retirements' = {} /\ DOMAIN stops' = {} /\ \A x : FramesOn(x)' = {}
    BY <1>0, <2>1 DEF Retirements, FramesOn
  <2>3. NoTableNoRecords' /\ ClosingOnly' /\ UnsentOnTop'
    BY <2>1, <2>2 DEF NoTableNoRecords, ClosingOnly, UnsentOnTop
  <2>4. HeldIsAttached' /\ NothingLeftAttached'
    BY <1>0, <2>1, <2>2 DEF Attachments, HeldIsAttached, NothingLeftAttached
  <2>5. OneSubscriberEach'
    BY <1>0, <2>1, <2>2 DEF Attachments, OneSubscriberEach, FramesOn
  <2> QED
    BY <2>3, <2>4, <2>5 DEF Attachments
<1>2. ASSUME NEW h \in Handle, CloseStop(h)
      PROVE  Attachments'
  <2> DEFINE f == [handle |-> h, sent |-> FALSE, dst |-> None, src |-> None]
  <2>1. /\ table = "closing" /\ table' = "closing"
        /\ h \in closing /\ closing' = closing \ {h}
        /\ Held' = Held /\ UNCHANGED <<attached, subs>>
        /\ stops' = <<f>>
    BY <1>2 DEF CloseStop, Held, engine
  <2>2. /\ DOMAIN stops' = {1} /\ Len(stops') = 1
        /\ stops'[1].handle = h /\ ~stops'[1].sent
    BY <2>1
  <2> HIDE DEF f
  <2>3. Retirements' = {} /\ \A x : FramesOn(x)' = {}
    BY <2>1, <2>2 DEF Retirements, Visiting, FramesOn
  <2>4. NoTableNoRecords' /\ ClosingOnly' /\ UnsentOnTop'
    BY <2>1, <2>2, <2>3 DEF NoTableNoRecords, ClosingOnly, UnsentOnTop
  <2>5. HeldIsAttached'
    BY <2>1 DEF Attachments, HeldIsAttached
  <2>6. NothingLeftAttached'
    BY <1>0, <2>1, <2>2 DEF Attachments, NothingLeftAttached
  <2>7. OneSubscriberEach'
    BY <1>0, <2>1, <2>3 DEF Attachments, OneSubscriberEach, FramesOn
  <2> QED
    BY <2>4, <2>5, <2>6, <2>7 DEF Attachments
<1>3. CASE EndClose
  <2>1. /\ table = "closing" /\ table' = "none" /\ closing = {} /\ closing' = {}
        /\ Held' = {} /\ UNCHANGED <<stops, attached>> /\ Undeclare(Held)
    BY <1>3, EmptyType DEF EndClose, Held
  <2>2. Retirements' = {} /\ DOMAIN stops' = {} /\ \A x : FramesOn(x)' = {}
    BY <1>0, <2>1 DEF Retirements, FramesOn
  <2>3. NoTableNoRecords' /\ ClosingOnly' /\ UnsentOnTop'
    BY <2>1, <2>2 DEF NoTableNoRecords, ClosingOnly, UnsentOnTop
  <2>4. HeldIsAttached' /\ NothingLeftAttached'
    BY <1>0, <2>1, <2>2 DEF Attachments, HeldIsAttached, NothingLeftAttached
  <2>5. OneSubscriberEach'
    <3>1. SUFFICES ASSUME Subscribes, NEW x \in Handle
                   PROVE  subs'[x] = (IF x \in Held' THEN 1 ELSE 0)
                                     + Cardinality(FramesOn(x)')
      BY DEF OneSubscriberEach, FramesOn
    <3>2. subs[x] = (IF x \in Held THEN 1 ELSE 0) + Cardinality(FramesOn(x))
      BY <3>1 DEF Attachments, OneSubscriberEach, FramesOn
    <3>3. FramesOn(x)' = FramesOn(x) /\ Cardinality(FramesOn(x)) \in Nat
      BY <1>0, <2>2, FramesFinite
    <3>4. subs'[x] = IF x \in Held THEN subs[x] - 1 ELSE subs[x]
      BY <2>1, <3>1 DEF Undeclare
    <3> QED
      BY <2>1, <3>2, <3>3, <3>4
  <2> QED
    BY <2>3, <2>4, <2>5 DEF Attachments
<1> QED
  BY <1>1, <1>2, <1>3

LEMMA AttachmentsInvariant == Spec => [](Tracking /\ Attachments)
<1>1. ASSUME Init PROVE Attachments
  <2>1. /\ Held = {} /\ closing = {} /\ attached = {} /\ DOMAIN stops = {}
        /\ \A h \in Handle : subs[h] = 0
    BY <1>1, EmptyType, EmptySeq DEF Init, Held
  <2>2. Retirements = {} /\ \A h : {i \in Retirements : stops[i].handle = h} = {}
    BY <2>1 DEF Retirements
  <2> QED
    BY <2>1, <2>2, FS_EmptySet
       DEF Attachments, NoTableNoRecords, ClosingOnly, UnsentOnTop, HeldIsAttached,
           NothingLeftAttached, OneSubscriberEach
<1>2. ASSUME Tracking, Attachments, [Next]_vars PROVE Attachments'
  <2>0. TypeOK /\ NoDanglingLease
    BY <1>2 DEF Tracking
  <2>1. CASE Idle /\ table' = table
    <3>1. Retirements' = Retirements
      BY <2>1 DEF Idle, Retirements, Visiting
    <3> QED
      BY <1>2, <2>1, <3>1
         DEF Idle, Attachments, NoTableNoRecords, ClosingOnly, UnsentOnTop,
             HeldIsAttached, NothingLeftAttached, OneSubscriberEach
  <2>2. CASE Idle /\ table = "none" /\ table' = "open"
    <3>1. Held = {} /\ closing = {}
      BY <1>2, <2>2 DEF Attachments, NoTableNoRecords, ClosingOnly
    <3>2. Retirements' = Retirements
      BY <2>2 DEF Idle, Retirements, Visiting
    <3> QED
      BY <1>2, <2>2, <3>1, <3>2
         DEF Idle, Attachments, NoTableNoRecords, ClosingOnly, UnsentOnTop,
             HeldIsAttached, NothingLeftAttached, OneSubscriberEach
  <2>3. Kind
    BY <1>2, <2>0, StepKind
  <2> QED
    BY <1>2, <2>0, <2>1, <2>2, <2>3, StartedAttaches, StartedLateAttaches,
       RetiredAttaches, SendStopAttaches, EndStopAttaches, ClosingAttaches DEF Kind
<1>3. Spec => []Tracking
  BY TrackingInvariant, PTL DEF Tracking
<1> QED
  BY <1>1, <1>2, <1>3, PTL DEF Spec

(* What the table holds, the engine has it attached to, whatever was       *)
(* refused, taken over, nested or detached by force (acquire, retire,      *)
(* ~RelationLeaseTable).                                                   *)
THEOREM HeldStreamsAreAttached == Spec => []HeldIsAttached
<1>1. Attachments => HeldIsAttached
  BY DEF Attachments
<1> QED
  BY <1>1, AttachmentsInvariant, PTL

(* When starts and stops do what they answer, the engine has this client   *)
(* attached to nothing but what the table holds or is stopping: a refused  *)
(* acquire leaves nothing to undo, and a dead table nothing behind.        *)
THEOREM AttachedIsHeld == Spec => []NothingLeftAttached
<1>1. Attachments => NothingLeftAttached
  BY DEF Attachments
<1> QED
  BY <1>1, AttachmentsInvariant, PTL

(* There is one status subscriber per record and one per stop in progress, *)
(* at every depth of nested StopFns and through the destructor: none is    *)
(* leaked by a redundant start, and none goes before its stream's stop has *)
(* returned (acquire, retire, ~RelationLeaseTable).                        *)
THEOREM SubscribersMatch == Spec => []OneSubscriberEach
<1>1. Attachments => OneSubscriberEach
  BY DEF Attachments
<1> QED
  BY <1>1, AttachmentsInvariant, PTL

(* The stop that is about to go out is for a stream without a record and   *)
(* without a claim: nobody's stream is taken (retire erases the record     *)
(* before it calls stop_).                                                 *)
THEOREM StopsAreUnclaimed == Spec => []StopsOnlyUnclaimed
<1>1. Tracking /\ Attachments /\ SharedOnEqualTerms => StopsOnlyUnclaimed
  <2> SUFFICES ASSUME TypeOK, UnsentOnTop, SharedOnEqualTerms, "early_call" \notin Permit,
                      NEW i \in Retirements, ~stops[i].sent
               PROVE  stops[i].handle \notin Held /\ CountedOn(stops[i].handle) = {}
    BY DEF Tracking, Attachments, StopsOnlyUnclaimed
  <2>1. stops[i].handle \notin Held
    BY DEF UnsentOnTop, Retirements
  <2>2. \A l \in live : claim[l] # None => lease[l] \in Held
    BY DEF TypeOK, SharedOnEqualTerms
  <2> QED
    BY <2>1, <2>2 DEF CountedOn, LiveOn, TypeOK
<1> QED
  BY <1>1, AttachmentsInvariant, ClaimsShareTheirTerms, PTL

---------------------------------------------------------------------------
(* Who loses a stream.                                                     *)

(* As long as nobody detaches by force, a record leaves an open table only *)
(* when the one lease there is on it gives it up: however leases are       *)
(* moved, assigned over and destroyed, inside a StopFn or outside, nobody  *)
(* takes a stream from another (release_one, retire).                      *)
THEOREM NobodyLosesAStream ==
  Spec => ("force_detach" \notin Permit => OthersKeepTheStream)
<1> SUFFICES ASSUME "force_detach" \notin Permit
             PROVE  Spec => OthersKeepTheStream
  OBVIOUS
<1>1. ASSUME TypeOK, CountsTheClaims, [Next]_vars,
             NEW h \in Held \ Held', table' = "open"
      PROVE  Cardinality(LiveOn(h)) <= 1
  <2>1. PICK x \in Handle : Retired(x)
    BY <1>1, StepKind
       DEF Kind, Idle, Started, StartedLate, SendStop, EndStop, BeginClose, CloseStop,
           EndClose, Held
  <2>2. h = x /\ records[h].count = 1 /\ table = "open"
    BY <1>1, <2>1 DEF Retired, Callable
  <2> QED
    BY <1>1, <2>2 DEF CountsTheClaims
<1>2. TypeOK /\ CountsTheClaims /\ [Next]_vars
        => [\A h \in Held \ Held' : table' = "open" => Cardinality(LiveOn(h)) <= 1]_vars
  BY <1>1
<1> QED
  BY <1>2, TypeCorrect, CountsAreRight, PTL DEF Spec, OthersKeepTheStream

---------------------------------------------------------------------------
(***************************************************************************)
(* LeaseTable implements StreamClaims: each step of the table is one of    *)
(* the claims, or none.                                                    *)
(***************************************************************************)

\* The refinement mapping of Claims, by name.
Holds == [l \in Lease |-> IF l \in live THEN lease[l] ELSE None]
Agreed == [h \in Handle |-> IF table = "open" /\ h \in Held THEN records[h].terms ELSE None]
UnsentOn(h) == {i \in DOMAIN stops : stops[i].handle = h /\ ~stops[i].sent}
Due == [h \in Handle |-> Cardinality(UnsentOn(h)) + IF h \in closing THEN 1 ELSE 0]

\* What is known of the table's states.
Known == Tracking /\ NoTableNoRecords /\ ClosingOnly /\ CountsTheClaims

\* Nobody detaches by force, and nobody calls a table under its destructor.
Disciplined == "force_detach" \notin Permit /\ "close_call" \notin Permit

\* Control with the table's callers means a table that is open.
LEMMA CallableOpen ==
  ASSUME Known, Disciplined, Callable
  PROVE  table = "open" /\ closing = {}
BY DEF Known, ClosingOnly, Disciplined, Callable

---------------------------------------------------------------------------
(* The mapping in the table's terms.                                       *)

\* The claims on a stream are the listed leases on its handle.
LEMMA HolderIsLive ==
  ASSUME Tracking, NEW h \in Handle
  PROVE  Claims!On(h) = LiveOn(h)
BY ConstantsOK DEF Tracking, TypeOK, Claims!On, LiveOn, ConstantsOK

\* A stream has a record if and only if it has a holder, and a count of one
\* if and only if it has one.
LEMMA RecordsAreHolders ==
  ASSUME Known, Disciplined, table = "open", NEW h \in Handle
  PROVE  /\ h \in Held <=> LiveOn(h) # {}
         /\ \A l \in LiveOn(h) : h \in Held /\ (records[h].count = 1 <=> LiveOn(h) = {l})
<1>1. IsFiniteSet(LiveOn(h))
  BY FiniteClaims DEF Known, Tracking
<1>2. Cardinality(LiveOn(h)) = IF h \in Held THEN records[h].count ELSE 0
  BY DEF Known, Disciplined, CountsTheClaims
<1>3. h \in Held => records[h].count \in Nat \ {0}
  BY DEF Known, Tracking, TypeOK, Record
<1>4. Cardinality(LiveOn(h)) = 0 <=> LiveOn(h) = {}
  BY <1>1, FS_EmptySet
<1>5. h \in Held <=> LiveOn(h) # {}
  BY <1>2, <1>3, <1>4
<1>6. Cardinality(LiveOn(h)) = 1 <=> \E l : LiveOn(h) = {l}
  BY <1>1, FS_Singleton
<1>7. ASSUME NEW l \in LiveOn(h)
      PROVE  h \in Held /\ (records[h].count = 1 <=> LiveOn(h) = {l})
  <2>1. h \in Held
    BY <1>5
  <2>2. (\E x : LiveOn(h) = {x}) <=> LiveOn(h) = {l}
    OBVIOUS
  <2> QED
    BY <1>2, <1>6, <2>1, <2>2
<1> QED
  BY <1>5, <1>7

LEMMA UnsentFinite ==
  ASSUME TypeOK, NEW h
  PROVE  IsFiniteSet(UnsentOn(h)) /\ Cardinality(UnsentOn(h)) \in Nat
<1>1. Len(stops) \in Nat /\ DOMAIN stops = 1 .. Len(stops)
  BY LenProperties DEF TypeOK
<1>2. IsFiniteSet(1 .. Len(stops)) /\ UnsentOn(h) \in SUBSET (1 .. Len(stops))
  BY <1>1, FS_Interval DEF UnsentOn
<1> QED
  BY <1>2, FS_Subset, FS_CardinalityType

\* The stops due change with the frames and the loop of the destructor only.
LEMMA DueSame ==
  ASSUME UNCHANGED <<stops, closing>>
  PROVE  Due' = Due
BY DEF Due, UnsentOn

\* A retirement makes one stop due.
LEMMA DueMore ==
  ASSUME TypeOK, NEW h \in Handle, UNCHANGED closing,
         NEW f \in Frame, f.handle = h, ~f.sent, stops' = Append(stops, f)
  PROVE  Due' = [Due EXCEPT ![h] = @ + 1]
<1> DEFINE n == Len(stops) + 1
<1>1. /\ DOMAIN stops' = DOMAIN stops \cup {n} /\ n \notin DOMAIN stops
      /\ \A i \in DOMAIN stops : stops'[i] = stops[i]
      /\ stops'[n] = f
  BY PushFrame DEF TypeOK
<1> HIDE DEF n
<1>2. UnsentOn(h)' = UnsentOn(h) \cup {n} /\ n \notin UnsentOn(h)
  BY <1>1 DEF UnsentOn
<1>3. Cardinality(UnsentOn(h) \cup {n}) = Cardinality(UnsentOn(h)) + 1
      /\ Cardinality(UnsentOn(h)) \in Nat
  BY <1>2, UnsentFinite, FS_AddElement
<1>4. Cardinality(UnsentOn(h)') = Cardinality(UnsentOn(h)) + 1
  BY <1>2, <1>3
<1>5. \A x \in Handle \ {h} : UnsentOn(x)' = UnsentOn(x)
  BY <1>1 DEF UnsentOn
<1>6. Due'[h] = Due[h] + 1
  BY <1>3, <1>4 DEF Due
<1>7. \A x \in Handle \ {h} : Due'[x] = Due[x]
  BY <1>5 DEF Due
<1>8. Due' = [x \in Handle |-> Due'[x]] /\ Due = [x \in Handle |-> Due[x]]
  BY DEF Due
<1> HIDE DEF Due
<1> QED
  BY <1>6, <1>7, <1>8

---------------------------------------------------------------------------
(* Steps of the claims, under the mapping.                                 *)

LEMMA GrantStep ==
  ASSUME NEW l \in Lease, NEW h \in Handle, NEW t \in Terms,
         Holds[l] = None, Agreed[h] \in {None, t},
         Holds' = [Holds EXCEPT ![l] = h],
         Agreed' = [Agreed EXCEPT ![h] = t], Due' = Due
  PROVE  Claims!Next
BY DEF Claims!Next, Claims!Grant, Holds, Agreed, Due, UnsentOn

LEMMA GiveUpStep ==
  ASSUME Tracking, NEW l \in Lease, Holds[l] \in Handle,
         Holds' = [Holds EXCEPT ![l] = None],
         \/ /\ LiveOn(Holds[l]) = {l}
            /\ Agreed' = [Agreed EXCEPT ![Holds[l]] = None]
            /\ Due' = [Due EXCEPT ![Holds[l]] = @ + 1]
         \/ LiveOn(Holds[l]) # {l} /\ Agreed' = Agreed /\ Due' = Due
  PROVE  Claims!Next
<1>1. Claims!On(Holds[l]) = LiveOn(Holds[l]) /\ Holds[l] # None
  BY HolderIsLive, ConstantsOK DEF ConstantsOK
<1>2. Claims!GiveUp(l)
  BY <1>1 DEF Claims!GiveUp, Claims!Ends, Holds, Agreed, Due, UnsentOn
<1> QED
  BY <1>2 DEF Claims!Next

LEMMA HandStep ==
  ASSUME NEW dst \in Lease, NEW src \in Lease,
         Holds[dst] = None, Holds[src] # None,
         Holds' = [Holds EXCEPT ![dst] = Holds[src], ![src] = None],
         Agreed' = Agreed, Due' = Due
  PROVE  Claims!Next
BY DEF Claims!Next, Claims!Hand, Holds, Agreed, Due, UnsentOn

LEMMA ReplaceStep ==
  ASSUME Tracking, NEW dst \in Lease, NEW src \in Lease, dst # src,
         Holds[dst] \in Handle, LiveOn(Holds[dst]) # {dst}, Holds[src] # None,
         Holds' = [Holds EXCEPT ![dst] = Holds[src], ![src] = None],
         Agreed' = Agreed, Due' = Due
  PROVE  Claims!Next
<1>1. Claims!On(Holds[dst]) = LiveOn(Holds[dst]) /\ Holds[dst] # None
  BY HolderIsLive, ConstantsOK DEF ConstantsOK
<1>2. Claims!Replace(dst, src)
  BY <1>1 DEF Claims!Replace, Holds, Agreed, Due, UnsentOn
<1> QED
  BY <1>2 DEF Claims!Next

LEMMA StopStep ==
  ASSUME NEW h \in Handle, Due[h] > 0, Due' = [Due EXCEPT ![h] = @ - 1],
         Holds' = Holds, Agreed' = Agreed
  PROVE  Claims!Next
BY DEF Claims!Next, Claims!Stop, Holds, Agreed, Due, UnsentOn

LEMMA NoStep ==
  ASSUME Holds' = Holds, Agreed' = Agreed, Due' = Due
  PROVE  UNCHANGED Claims!vars
BY DEF Claims!vars, Holds, Agreed, Due, UnsentOn

---------------------------------------------------------------------------
(* What the table's operations are under the mapping.                      *)

LEMMA HoldsRange ==
  ASSUME Tracking
  PROVE  \A l \in Lease : /\ l \in live => Holds[l] = lease[l] /\ lease[l] \in Handle
                                          /\ lease[l] # None
                          /\ l \notin live => Holds[l] = None
BY ConstantsOK DEF Tracking, TypeOK, NoDanglingLease, Holds, ConstantsOK

\* A lease is granted, by a record that stands or one that is made.
LEMMA EnrollGrants ==
  ASSUME Known, table = "open", table' = "open",
         NEW l \in Lease, NEW h \in Handle, NEW t \in Terms,
         Vacant(l), Enroll(l, h, t), UNCHANGED <<stops, closing>>,
         h \in Held => records[h].terms = t,
         Held' = Held \cup {h}, records'[h].terms = t,
         \A x \in Held \ {h} : records'[x].terms = records[x].terms
  PROVE  Claims!Next
<1>1. l \notin live
  BY VacantIsFree DEF Known
<1>2. Holds[l] = None
  BY <1>1, HoldsRange DEF Known
<1>3. Holds' = [Holds EXCEPT ![l] = h]
  BY <1>1 DEF Enroll, Holds, Known, Tracking, TypeOK
<1>4. Agreed[h] \in {None, t} /\ Agreed' = [Agreed EXCEPT ![h] = t]
  BY DEF Agreed
<1>5. Due' = Due
  BY DueSame
<1> QED
  BY <1>2, <1>3, <1>4, <1>5, GrantStep

\* A release that is not the last leaves records and terms to the others.
LEMMA ReleaseKeepsAgreed ==
  ASSUME Known, Disciplined, table = "open", table' = "open",
         NEW l \in live, NEW h \in Handle, lease[l] = h, ReleaseAtOnce(h)
  PROVE  LiveOn(h) # {l} /\ Agreed' = Agreed
<1>1. l \in LiveOn(h)
  BY DEF LiveOn
<1>2. h \in Held /\ records[h].count > 1 /\ CountDown(h)
  BY <1>1, RecordsAreHolders DEF ReleaseAtOnce
<1>3. records[h].count # 1
  BY <1>2, CountType DEF Known, Tracking, Record
<1>4. LiveOn(h) # {l}
  BY <1>1, <1>3, RecordsAreHolders
<1>5. Held' = Held /\ \A x \in Held : records'[x].terms = records[x].terms
  BY <1>2, CountType DEF Known, Tracking
<1>6. Agreed' = Agreed
  BY <1>5 DEF Agreed
<1> QED
  BY <1>4, <1>6

\* The last one makes a stop due.
LEMMA RetireEnds ==
  ASSUME Known, Disciplined, table = "open", table' = "open",
         NEW l \in live, NEW h \in Held, lease[l] = h, records[h].count = 1,
         NEW dst \in Lease \cup {None}, NEW src \in Lease \cup {None},
         dst = None <=> src = None, Retire(h, dst, src), UNCHANGED closing
  PROVE  /\ LiveOn(h) = {l}
         /\ Agreed' = [Agreed EXCEPT ![h] = None]
         /\ Due' = [Due EXCEPT ![h] = @ + 1]
<1> DEFINE f == [handle |-> h, sent |-> FALSE, dst |-> dst, src |-> src]
<1>1. h \in Handle /\ f \in Frame /\ f.handle = h /\ ~f.sent
  BY DEF Known, Tracking, TypeOK, Frame
<1>2. stops' = Append(stops, f)
  BY DEF Retire
<1> HIDE DEF f
<1>3. Due' = [Due EXCEPT ![h] = @ + 1]
  BY <1>1, <1>2, DueMore DEF Known, Tracking
<1>4. l \in LiveOn(h)
  BY DEF LiveOn
<1>5. LiveOn(h) = {l}
  BY <1>1, <1>4, RecordsAreHolders
<1>6. Held' = Held \ {h} /\ \A x \in Held' : records'[x] = records[x]
  BY RetireType DEF Known, Tracking
<1>7. Agreed' = [Agreed EXCEPT ![h] = None]
  BY <1>6 DEF Agreed
<1> QED
  BY <1>3, <1>5, <1>7

\* One object takes another's place.
LEMMA TakeOverHolds ==
  ASSUME Tracking, NEW dst \in Lease, NEW src \in live, dst # src,
         NEW leases \in SUBSET live, src \in leases, live \ {dst} \subseteq leases,
         TakeOver(dst, src, leases)
  PROVE  Holds' = [Holds EXCEPT ![dst] = Holds[src], ![src] = None]
<1>1. /\ src \in Lease /\ live \subseteq Lease
      /\ lease \in [Lease -> Handle \cup {None, Dangling}]
  BY DEF Tracking, TypeOK
<1>2. live' = (leases \ {src}) \cup {dst}
  BY DEF TakeOver, Rebind
<1>3. \A l \in Lease : lease'[l] = IF l = src THEN None
                                   ELSE IF l = dst THEN lease[src] ELSE lease[l]
  BY <1>1 DEF TakeOver
<1> QED
  BY <1>1, <1>2, <1>3 DEF Holds

LEMMA DestroyGivesUp ==
  ASSUME Known, Disciplined, NEW l \in Lease, Destroy(l)
  PROVE  Claims!Next
<1>1. /\ table = "open" /\ table' = "open" /\ UNCHANGED closing
      /\ l \in live /\ live' = live \ {l} /\ lease' = [lease EXCEPT ![l] = None]
  BY EngagedIsLive, CallableOpen DEF Destroy, Known, Retire
<1> DEFINE h == lease[l]
<1>2. h \in Handle /\ Holds[l] = h
  BY <1>1, HoldsRange DEF Known
<1>3. Holds' = [Holds EXCEPT ![l] = None]
  BY <1>1 DEF Holds, Known, Tracking, TypeOK
<1>4. CASE ReleaseAtOnce(h) /\ UNCHANGED stops
  <2>1. LiveOn(h) # {l} /\ Agreed' = Agreed
    BY <1>1, <1>2, <1>4, ReleaseKeepsAgreed
  <2> QED
    BY <1>1, <1>2, <1>3, <1>4, <2>1, DueSame, GiveUpStep DEF Known
<1>5. CASE IsLast(h) /\ Retire(h, None, None)
  <2>1. /\ LiveOn(h) = {l}
        /\ Agreed' = [Agreed EXCEPT ![h] = None]
        /\ Due' = [Due EXCEPT ![h] = @ + 1]
    BY <1>1, <1>5, RetireEnds DEF IsLast
  <2> QED
    BY <1>2, <1>3, <2>1, GiveUpStep DEF Known
<1> QED
  BY <1>4, <1>5 DEF Destroy

LEMMA MoveHands ==
  ASSUME Known, NEW dst \in Lease, NEW src \in Lease, Move(dst, src)
  PROVE  Claims!Next
<1>1. /\ dst \notin live /\ src \in live /\ dst # src /\ TakeOver(dst, src, live)
      /\ UNCHANGED <<table, records, stops, closing>>
  BY EngagedIsLive, VacantIsFree DEF Move, Known
<1>2. Holds' = [Holds EXCEPT ![dst] = Holds[src], ![src] = None]
  BY <1>1, TakeOverHolds DEF Known
<1>3. Holds[dst] = None /\ Holds[src] # None
  BY <1>1, HoldsRange DEF Known
<1>4. Agreed' = Agreed
  BY <1>1 DEF Agreed, Held
<1> QED
  BY <1>1, <1>2, <1>3, <1>4, DueSame, HandStep

LEMMA MoveAssignReplaces ==
  ASSUME Known, Disciplined,
         NEW dst \in Lease, NEW src \in Lease, MoveAssign(dst, src)
  PROVE  Claims!Next
<1>1. /\ table = "open" /\ table' = "open" /\ UNCHANGED closing
      /\ dst # src /\ dst \in live /\ src \in live
  BY EngagedIsLive, CallableOpen DEF MoveAssign, Known, Retire
<1> DEFINE h == lease[dst]
<1>2. h \in Handle /\ Holds[dst] = h /\ Holds[src] # None
  BY <1>1, HoldsRange DEF Known
<1>3. CASE ReleaseAtOnce(h) /\ TakeOver(dst, src, live \ {dst}) /\ UNCHANGED stops
  <2>1. LiveOn(h) # {dst} /\ Agreed' = Agreed
    BY <1>1, <1>2, <1>3, ReleaseKeepsAgreed
  <2>2. Holds' = [Holds EXCEPT ![dst] = Holds[src], ![src] = None]
    BY <1>1, <1>3, TakeOverHolds DEF Known
  <2> QED
    BY <1>1, <1>2, <1>3, <2>1, <2>2, DueSame, ReplaceStep DEF Known
<1>4. CASE IsLast(h) /\ Retire(h, dst, src) /\ live' = live \ {dst} /\ UNCHANGED lease
  <2>1. dst # None /\ src # None
    BY ConstantsOK DEF ConstantsOK
  <2>2. /\ LiveOn(h) = {dst}
        /\ Agreed' = [Agreed EXCEPT ![h] = None]
        /\ Due' = [Due EXCEPT ![h] = @ + 1]
    BY <1>1, <1>4, <2>1, RetireEnds DEF IsLast
  <2>3. Holds' = [Holds EXCEPT ![dst] = None]
    BY <1>4 DEF Holds, Known, Tracking, TypeOK
  <2> QED
    BY <1>2, <2>2, <2>3, GiveUpStep DEF Known
<1> QED
  BY <1>3, <1>4 DEF MoveAssign

\* An acquire grants a claim or does nothing anybody could see.
LEMMA AcquireGrants ==
  ASSUME Known, Disciplined, NEW r \in Relation, NEW t \in Terms, Acquire(r, t)
  PROVE  Claims!Next \/ UNCHANGED Claims!vars
<1>1. CASE UNCHANGED <<table, records, live, lease, stops, closing>>
  BY <1>1, DueSame, NoStep DEF Holds, Agreed, Held
<1>2. CASE AcquireRefused(r, t) \/ AcquireFailed(r)
           \/ \E h \in Handle : AcquireConflict(r, t, h)
  BY <1>1, <1>2 DEF AcquireRefused, AcquireFailed, AcquireConflict, vars
<1>3. ASSUME NEW l \in Lease, NEW h \in Held, Callable, Vacant(l),
             SameTerms(h, t), CountUp(h), Enroll(l, h, t),
             UNCHANGED <<table, stops, closing>>
      PROVE  Claims!Next
  <2>1. /\ h \in Handle /\ Held' = Held
        /\ \A x \in Held : records'[x].terms = records[x].terms
    BY <1>3, CountType DEF Known, Tracking, TypeOK
  <2> QED
    BY <1>3, <2>1, CallableOpen, EnrollGrants DEF SameTerms
<1>4. ASSUME NEW l \in Lease, AcquireShared(r, t, l)
      PROVE  Claims!Next
  BY <1>3, <1>4 DEF AcquireShared, Remembered
<1>5. ASSUME NEW l \in Lease, NEW h \in Handle, AcquireAlias(r, t, l, h)
      PROVE  Claims!Next
  BY <1>3, <1>5 DEF AcquireAlias
<1>6. ASSUME NEW l \in Lease, NEW h \in Handle, AcquireFirst(r, t, l, h)
      PROVE  Claims!Next
  <2>1. h \notin Held /\ Held' = Held \cup {h} /\ records'[h].terms = t
        /\ \A x \in Held : records'[x] = records[x]
    BY <1>6 DEF AcquireFirst, Put, Held
  <2>2. table = "open" /\ UNCHANGED closing
    BY <1>6, CallableOpen DEF AcquireFirst, VisitedLater
  <2> QED
    BY <1>6, <2>1, <2>2, EnrollGrants DEF AcquireFirst
<1> QED
  BY <1>2, <1>4, <1>5, <1>6 DEF Acquire

\* A stop that is sent was due.
LEMMA SendStopStops ==
  ASSUME Known, SendStop
  PROVE  Claims!Next
<1> DEFINE n == Len(stops)
<1>1. n \in DOMAIN stops /\ stops[n] \in Frame /\ Top = stops[n] /\ ~Top.sent
  BY EmptySeq, LenProperties, ElementOfSeq DEF SendStop, Known, Tracking, TypeOK, Top
<1>2. /\ DOMAIN stops' = DOMAIN stops
      /\ \A i \in DOMAIN stops : /\ stops'[i].handle = stops[i].handle
                                 /\ stops'[i].sent = (stops[i].sent \/ i = n)
  BY MarkTop DEF SendStop, Known, Tracking, TypeOK
<1>3. UNCHANGED <<table, records, live, lease, closing>>
  BY DEF SendStop
<1>4. PICK h \in Handle : stops[n].handle = h /\ ~stops[n].sent
  BY <1>1 DEF Frame
<1> HIDE DEF n
<1>5. n \in UnsentOn(h) /\ UnsentOn(h)' = UnsentOn(h) \ {n}
  BY <1>1, <1>2, <1>4 DEF UnsentOn
<1>6. \A x \in Handle \ {h} : UnsentOn(x)' = UnsentOn(x)
  BY <1>1, <1>2, <1>4 DEF UnsentOn
<1>7. /\ Cardinality(UnsentOn(h) \ {n}) = Cardinality(UnsentOn(h)) - 1
      /\ Cardinality(UnsentOn(h)) \in Nat
      /\ Cardinality(UnsentOn(h) \ {n}) \in Nat
  BY <1>5, UnsentFinite, FS_RemoveElement, FS_CardinalityType DEF Known, Tracking
<1>8. Cardinality(UnsentOn(h)') = Cardinality(UnsentOn(h)) - 1
  BY <1>5, <1>7
<1>9. Due[h] > 0 /\ Due'[h] = Due[h] - 1
  BY <1>3, <1>4, <1>7, <1>8 DEF Due
<1>10. \A x \in Handle \ {h} : Due'[x] = Due[x]
  BY <1>3, <1>6 DEF Due
<1>11. Due' = [x \in Handle |-> Due'[x]] /\ Due = [x \in Handle |-> Due[x]]
  BY DEF Due
<1>12. Holds' = Holds /\ Agreed' = Agreed
  BY <1>3 DEF Holds, Agreed, Held
<1> HIDE DEF Due
<1>13. Due' = [Due EXCEPT ![h] = @ - 1]
  BY <1>9, <1>10, <1>11
<1> QED
  BY <1>4, <1>9, <1>12, <1>13, StopStep

\* The objects of the innermost assignment are no left sides further out.
LEMMA TopIsAlone ==
  ASSUME Tracking, stops # <<>>, Top.dst # None
  PROVE  /\ Receiving(Top.dst)
         /\ \A i \in DOMAIN stops : stops[i].dst # Top.src
<1> DEFINE n == Len(stops)
<1>1. n \in Nat /\ n \in DOMAIN stops /\ DOMAIN stops = 1 .. n /\ Top = stops[n]
  BY EmptySeq, LenProperties DEF Tracking, TypeOK, Top
<1>2. stops[n] \in Frame
  BY <1>1, ElementOfSeq DEF Tracking, TypeOK
<1>3. Top.src # None
  BY <1>1, <1>2 DEF Frame
<1>4. ASSUME NEW i \in DOMAIN stops, stops[i].dst = Top.src
      PROVE  FALSE
  <2>1. stops[i].dst # None
    BY <1>3, <1>4
  <2>2. i = n \/ i < n
    BY <1>1
  <2> QED
    BY <1>1, <1>4, <2>1, <2>2 DEF Tracking, Assignments
<1> QED
  BY <1>1, <1>4 DEF Receiving

\* A StopFn that returns may complete a move assignment, and no more.
LEMMA EndStopHands ==
  ASSUME Known, EndStop
  PROVE  Claims!Next \/ UNCHANGED Claims!vars
<1> DEFINE n == Len(stops)
<1>1. /\ n \in DOMAIN stops /\ DOMAIN stops' = DOMAIN stops \ {n}
      /\ \A i \in DOMAIN stops' : stops'[i] = stops[i]
      /\ Top = stops[n] /\ Top.sent
  BY PopFrame DEF EndStop, Known, Tracking, TypeOK, Top
<1>2. Top \in Frame /\ UNCHANGED <<table, records, closing>>
  BY <1>1, ElementOfSeq, LenProperties DEF EndStop, Known, Tracking, TypeOK
<1> HIDE DEF n
<1>3. \A x : UnsentOn(x)' = UnsentOn(x)
  BY <1>1 DEF UnsentOn
<1>4. Due' = Due /\ Agreed' = Agreed
  BY <1>2, <1>3 DEF Due, Agreed, Held
<1>5. CASE Top.dst = None
  <2>1. Holds' = Holds
    BY <1>5 DEF EndStop, Holds
  <2> QED
    BY <1>4, <2>1, NoStep
<1>6. CASE Top.dst # None
  <2> DEFINE dst == Top.dst
             src == Top.src
  <2>1. dst \in Lease /\ src \in Lease
    BY <1>2, <1>6 DEF Frame
  <2>2. dst # src /\ lease[dst] \in Handle /\ lease[src] # Dangling
    BY <1>1, <1>6 DEF Known, Tracking, Assignments
  <2>3. ~Receiving(src) /\ Receiving(dst)
    BY <1>1, <1>6, <2>1, <2>2, TopIsAlone, ConstantsOK
       DEF Known, Receiving, ConstantsOK
  <2>4. dst \notin live /\ Holds[dst] = None
    BY <2>1, <2>3, HoldsRange DEF Known, Tracking, NoDanglingLease
  <2>5. TakeOver(dst, src, live)
    BY <1>6 DEF EndStop
  <2>6. CASE src \in live
    <3>1. Holds' = [Holds EXCEPT ![dst] = Holds[src], ![src] = None]
      BY <2>1, <2>2, <2>4, <2>5, <2>6, TakeOverHolds DEF Known
    <3>2. Holds[src] # None
      BY <2>1, <2>6, HoldsRange DEF Known
    <3> QED
      BY <1>4, <2>1, <2>4, <3>1, <3>2, HandStep
  <2>7. CASE src \notin live
    <3>1. lease[src] = None
      BY <2>1, <2>2, <2>3, <2>7 DEF Known, Tracking, TypeOK, NoDanglingLease
    <3>2. /\ live' = live
          /\ \A l \in live : lease'[l] = lease[l]
      BY <2>1, <2>4, <2>5, <2>7 DEF TakeOver, Rebind, Known, Tracking, TypeOK
    <3>3. Holds' = Holds
      BY <3>2 DEF Holds
    <3> QED
      BY <1>4, <3>3, NoStep
  <2> QED
    BY <2>6, <2>7
<1> QED
  BY <1>5, <1>6

\* The destructor ends all claims at once, and then sends the stops due.
LEMMA BeginCloseEnds ==
  ASSUME Known, Disciplined, BeginClose
  PROVE  Claims!Next
<1>1. /\ table = "open" /\ table' = "closing" /\ live' = {}
      /\ closing = {} /\ closing' = Held /\ UNCHANGED stops
  BY DEF BeginClose, Known, ClosingOnly
<1>2. Holds' = [l \in Lease |-> None] /\ Agreed' = [h \in Handle |-> None]
  BY <1>1 DEF Holds, Agreed
<1>3. \A h \in Handle : h \in Held <=> Claims!On(h) # {}
  BY <1>1, RecordsAreHolders, HolderIsLive DEF Known
<1>4. \A x : UnsentOn(x)' = UnsentOn(x)
  BY <1>1 DEF UnsentOn
<1>5. \A h \in Handle : Cardinality(UnsentOn(h)) \in Nat
  BY UnsentFinite DEF Known, Tracking
<1>6. Due' = [h \in Handle |-> IF Claims!On(h) # {} THEN Due[h] + 1 ELSE Due[h]]
  BY <1>1, <1>3, <1>4, <1>5 DEF Due
<1>7. Claims!EndAll
  BY <1>2, <1>6 DEF Claims!EndAll, Holds, Agreed, Due, UnsentOn
<1> QED
  BY <1>7 DEF Claims!Next

\* Its loop goes from one stop that is due to the next.
LEMMA CloseStopCalls ==
  ASSUME Known, NEW h \in Handle, CloseStop(h)
  PROVE  UNCHANGED Claims!vars
<1> DEFINE f == [handle |-> h, sent |-> FALSE, dst |-> None, src |-> None]
<1>1. /\ stops = <<>> /\ stops' = <<f>> /\ h \in closing /\ closing' = closing \ {h}
      /\ UNCHANGED <<table, records, live, lease>>
  BY DEF CloseStop
<1>2. \A x : UnsentOn(x) = {}
  BY <1>1, EmptySeq DEF UnsentOn
<1>3. \A x : UnsentOn(x)' = IF x = h THEN {1} ELSE {}
  BY <1>1 DEF UnsentOn
<1>4. Cardinality({}) = 0 /\ Cardinality({1}) = 1
  BY FS_EmptySet, FS_Singleton
<1>5. ASSUME NEW x \in Handle
      PROVE  Due'[x] = Due[x]
  <2>1. Cardinality(UnsentOn(x)) = 0
    BY <1>2, <1>4
  <2>2. Cardinality(UnsentOn(x)') = IF x = h THEN 1 ELSE 0
    BY <1>3, <1>4
  <2>3. x \in closing' <=> x \in closing /\ x # h
    BY <1>1
  <2> QED
    BY <1>1, <2>1, <2>2, <2>3 DEF Due
<1>6. Due' = [x \in Handle |-> Due'[x]] /\ Due = [x \in Handle |-> Due[x]]
  BY DEF Due
<1>7. Holds' = Holds /\ Agreed' = Agreed
  BY <1>1 DEF Holds, Agreed, Held
<1> HIDE DEF Due
<1> QED
  BY <1>5, <1>6, <1>7, NoStep

---------------------------------------------------------------------------
(* The refinement.                                                         *)

(* Unless somebody detaches by force or calls a table that is being        *)
(* destroyed, the table keeps the promise of StreamClaims: claims on a     *)
(* stream agree on its terms, a stop becomes due when the last of them     *)
(* ends and at no other time, and no stop is sent that was not due,        *)
(* whatever is nested, moved or overwritten meanwhile (acquire,            *)
(* release_one, retire, ~RelationLeaseTable).                              *)
THEOREM TableKeepsTheClaims ==
  Spec => (Permit \cap {"force_detach", "close_call"} = {} => KeepsTheClaims)
<1> SUFFICES ASSUME Disciplined
             PROVE  Spec => KeepsTheClaims
  BY DEF Disciplined
<1>1. ASSUME Init PROVE Claims!Init
  <2>1. live = {} /\ Held = {} /\ closing = {} /\ DOMAIN stops = {}
    BY <1>1, EmptyType, EmptySeq DEF Init, Held
  <2>2. \A x : UnsentOn(x) = {}
    BY <2>1 DEF UnsentOn
  <2>3. Holds = [l \in Lease |-> None] /\ Agreed = [h \in Handle |-> None]
    BY <2>1 DEF Holds, Agreed
  <2>4. \A x : Cardinality(UnsentOn(x)) = 0
    BY <2>2, FS_EmptySet
  <2>5. Due = [h \in Handle |-> 0]
    BY <2>1, <2>4 DEF Due
  <2> QED
    BY <2>3, <2>5 DEF Claims!Init, Holds, Agreed, Due, UnsentOn
<1>2. ASSUME Known, [Next]_vars PROVE [Claims!Next]_Claims!vars
  <2>1. CASE UNCHANGED vars
    BY <2>1, DueSame, NoStep DEF vars, Holds, Agreed, Held
  <2>2. CASE Construct
    <3>1. Held = {} /\ table # "open"
      BY <1>2, <2>2 DEF Construct, Known, NoTableNoRecords
    <3>2. Agreed' = Agreed /\ Holds' = Holds
      BY <2>2, <3>1 DEF Construct, Agreed, Holds, Held
    <3> QED
      BY <2>2, <3>2, DueSame, NoStep DEF Construct
  <2>3. ASSUME NEW r \in Relation, NEW t \in Terms, Acquire(r, t)
        PROVE  Claims!Next \/ UNCHANGED Claims!vars
    BY <1>2, <2>3, AcquireGrants
  <2>4. ASSUME NEW l \in Lease, Destroy(l) PROVE Claims!Next
    BY <1>2, <2>4, DestroyGivesUp
  <2>5. ASSUME NEW dst \in Lease, NEW src \in Lease, Move(dst, src) \/ MoveAssign(dst, src)
        PROVE  Claims!Next
    BY <1>2, <2>5, MoveHands, MoveAssignReplaces
  <2>6. ASSUME NEW h \in Handle, ForceDetach(h) PROVE FALSE
    BY <2>6 DEF ForceDetach, Disciplined
  <2>7. CASE SendStop
    BY <1>2, <2>7, SendStopStops
  <2>8. CASE EndStop
    BY <1>2, <2>8, EndStopHands
  <2>9. CASE BeginClose
    BY <1>2, <2>9, BeginCloseEnds
  <2>10. ASSUME NEW h \in Handle, CloseStop(h) PROVE UNCHANGED Claims!vars
    BY <1>2, <2>10, CloseStopCalls
  <2>11. CASE EndClose
    <3>0. live = {} /\ live' = {}
      BY <1>2, <2>11 DEF EndClose, Disciplined, Known, Tracking, NoDanglingLease, TypeOK
    <3>1. Agreed' = Agreed /\ Holds' = Holds
      BY <2>11, <3>0 DEF EndClose, Agreed, Holds
    <3> QED
      BY <2>11, <3>1, DueSame, NoStep DEF EndClose
  <2> QED
    BY <1>2, <2>1, <2>2, <2>3, <2>4, <2>5, <2>6, <2>7, <2>8, <2>9, <2>10, <2>11
       DEF Next
<1>3. Tracking /\ Attachments /\ CountsTheClaims => Known
  BY DEF Attachments, Known
<1> QED
  BY <1>1, <1>2, <1>3, AttachmentsInvariant, CountsAreRight, PTL
     DEF Spec, KeepsTheClaims, Claims!Spec

============================================================================
