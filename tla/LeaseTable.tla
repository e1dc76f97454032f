---------------------------- MODULE LeaseTable ----------------------------
(***************************************************************************)
(* The local reference count for shared stream handles: RelationLeaseTable *)
(* and RelationLease of tcn/sqe/lease.h.                                   *)
(*                                                                         *)
(* The engine keeps the requesters of a stream as a SET of client ids, so  *)
(* one stop detaches the whole process.  The table counts the claims the   *)
(* components of the process hold on each handle and sends a start on      *)
(* 0 -> 1 and a stop on 1 -> 0.                                            *)
(*                                                                         *)
(* The table is not synchronized: one request thread calls it.  The only   *)
(* calls out of it are StartFn, which is one step here (a query that       *)
(* blocks, and a subscription), and StopFn, which may call the table again *)
(* before it returns.  A retirement is therefore three steps (the record   *)
(* goes, the stop reaches the engine, the status subscriber goes), and     *)
(* other operations run between them, nested in the StopFn.  So are the    *)
(* stops ~RelationLeaseTable sends: nothing keeps their StopFn from        *)
(* calling the table that is being destroyed.                              *)
(*                                                                         *)
(* What the engine does to a stream of its own accord changes no variable  *)
(* of the table; RelationService has it.                                   *)
(***************************************************************************)
EXTENDS Integers, Sequences, FiniteSets

CONSTANTS
  Relation,    \* spellings of a relation: (observer, target) as requested
  Handle,      \* handles, by the data topic that is their identity
  Terms,       \* what same_terms_as compares: the trigger and the bias
  Lease,       \* RelationLease objects the components may hold
  Resolve,     \* the handles the engine may answer a spelling with
  None,        \* no handle, no terms, no lease
  Dangling,    \* in the place of a handle: table_ is a table that has died
  Subscribes,  \* the integrator's StartFn declares {handle}/status
  Permit,      \* what the environment of the table may do, see Latitude
  MaxNesting   \* bound: depth of StopFn calls in progress

(* "force_detach": some component uses the escape hatch.                   *)
(* "start_late":   a start fails at the client but took effect engine-side *)
(*                 (timeout, undecodable reply, refused subscription).     *)
(* "stop_lost":    a stop never reaches the engine; its result is unread.  *)
(* "early_call":   StopFn calls the table before it sends its stop.        *)
(* "close_call":   StopFn calls the table that ~RelationLeaseTable is      *)
(*                 destroying.                                             *)
Latitude ==
  {"force_detach", "start_late", "stop_lost", "early_call", "close_call"}

ASSUME ConstantsOK ==
  /\ Resolve \in [Relation -> SUBSET Handle]
  /\ None \notin Handle \cup Terms \cup Lease
  /\ Dangling \notin Handle \cup {None}
  /\ IsFiniteSet(Lease)
  /\ Subscribes \in BOOLEAN
  /\ Permit \subseteq Latitude
  /\ MaxNesting \in Nat

VARIABLES
  table,     \* "none", "open", or "closing" while ~RelationLeaseTable runs
  records,   \* records_: a map from handles to their terms and count
  memo,      \* memo_: a map from spellings to handles
  live,      \* live_: the leases the table will detach when it dies
  lease,     \* per lease, its handle_ if its table_ is this table, None if
             \* that is null, Dangling if that is a table that has died
  stops,     \* the calls of StopFn in progress, innermost last
  closing,   \* the records ~RelationLeaseTable has still to stop
  attached,  \* engine: the handles this client id is a requester of
  subs,      \* transport: declared {handle}/status subscribers, per handle
  claim      \* history: the terms a lease was taken on, while a record
             \* counts it; None for a lease whose record has been retired

vars == <<table, records, memo, live, lease, stops, closing,
          attached, subs, claim>>

engine == <<attached, subs>>

---------------------------------------------------------------------------
(* Maps and the state they hold.                                           *)
(*                                                                         *)
(* An operator whose name has an underscore is not part of the             *)
(* specification: it is the definition of the same name with a mistake     *)
(* someone could make in that code, and shows that a property would see it.*)

Record == [terms : Terms, count : Nat \ {0}]

\* dst and src: the move assignment that waits for the retirement, if any.
Frame == {f \in [handle : Handle, sent : BOOLEAN,
                 dst : Lease \cup {None}, src : Lease \cup {None}] :
            f.dst = None <=> f.src = None}

Empty == [x \in {} |-> None]

Put(map, key, value) ==
  [x \in DOMAIN map \cup {key} |-> IF x = key THEN value ELSE map[x]]

Without(map, keys) == [x \in DOMAIN map \ keys |-> map[x]]

Held == DOMAIN records

Aliases(h) == {r \in DOMAIN memo : memo[r] = h}

\* The leases on h the table knows, and those of them a record counts.
LiveOn(h) == {l \in live : lease[l] = h}
CountedOn(h) == {l \in LiveOn(h) : claim[l] # None}

Top == stops[Len(stops)]

\* Under ~RelationLeaseTable the outermost StopFn is the one its loop calls,
\* for a record that still stands; all others are called by retire.
Visiting(i) == table = "closing" /\ i = 1
Retirements == {i \in DOMAIN stops : ~Visiting(i)}

\* Control is with code that may call the table: outside every StopFn, or
\* inside the innermost one.
Callable ==
  /\ \/ table = "open"
     \/ table = "closing" /\ stops # <<>> /\ "close_call" \in Permit
  /\ stops # <<>> => Top.sent \/ "early_call" \in Permit

\* The left side of a move assignment whose release is in progress.  The
\* StopFn of that release leaves the object under assignment alone; the
\* right side it may use as it likes, that is read when it has returned.
Receiving(l) == \E i \in DOMAIN stops : stops[i].dst = l

\* A name without an object, or an object whose table_ is null (moved-from
\* or detached): destroying either does nothing, and either can receive.
Vacant(l) == lease[l] = None
Engaged(l) == lease[l] \in Handle /\ ~Receiving(l)

Init ==
  /\ table = "none"
  /\ records = Empty
  /\ memo = Empty
  /\ live = {}
  /\ lease = [l \in Lease |-> None]
  /\ stops = <<>>
  /\ closing = {}
  /\ attached = {}
  /\ subs = [h \in Handle |-> 0]
  /\ claim = [l \in Lease |-> None]

Construct ==
  /\ table = "none"
  /\ table' = "open"
  /\ UNCHANGED <<records, memo, live, lease, stops, closing, engine, claim>>

---------------------------------------------------------------------------
(* acquire.                                                                *)

\* RelationLease(this, h): the object exists and is enrolled.
Enroll(l, h, t) ==
  /\ lease' = [lease EXCEPT ![l] = h]
  /\ live' = live \cup {l}
  /\ claim' = [claim EXCEPT ![l] = t]

CountUp_Forgotten(h) == h \in Held /\ UNCHANGED records

CountUp(h) == records' = [records EXCEPT ![h].count = @ + 1]

SameTerms_Unchecked(h, t) == h \in Held /\ t \in Terms

\* same_terms_as: the request agrees with the record on trigger and bias.
SameTerms(h, t) == records[h].terms = t

\* The memo has a handle for the spelling and the record stands: no wire.
Remembered(r) == r \in DOMAIN memo /\ memo[r] \in Held

AcquireShared(r, t, l) ==
  /\ Callable /\ Vacant(l)
  /\ Remembered(r)
  /\ SameTerms(memo[r], t)
  /\ CountUp(memo[r])
  /\ Enroll(l, memo[r], t)
  /\ UNCHANGED <<table, memo, stops, closing, engine>>

\* ConflictingLease before the wire: nothing changes anywhere.
AcquireRefused(r, t) ==
  /\ Callable
  /\ Remembered(r)
  /\ ~SameTerms(memo[r], t)
  /\ UNCHANGED vars

\* A start goes out.  An alias without a record is dropped first; the code
\* calls it unreachable, and AliasesResolve says so.
MemoAtStart(r) == IF Remembered(r) THEN memo ELSE Without(memo, {r})

\* The destructor's loop comes to a new record if its key sorts after the
\* one the loop stands on.
VisitedLater(h) ==
  \/ UNCHANGED closing
  \/ table = "closing" /\ closing' = closing \cup {h}

AcquireFirst(r, t, l, h) ==
  /\ Callable /\ Vacant(l)
  /\ ~Remembered(r)
  /\ h \in Resolve[r] \ Held
  /\ records' = Put(records, h, [terms |-> t, count |-> 1])
  /\ memo' = Put(MemoAtStart(r), r, h)
  /\ Enroll(l, h, t)
  /\ attached' = attached \cup {h}
  /\ subs' = [subs EXCEPT ![h] = IF Subscribes THEN @ + 1 ELSE @]
  /\ VisitedLater(h)
  /\ UNCHANGED <<table, stops>>

\* Another spelling of a stream already held.  The subscriber the start
\* declared is dropped with the claim before acquire returns.
AcquireAlias(r, t, l, h) ==
  /\ Callable /\ Vacant(l)
  /\ ~Remembered(r)
  /\ h \in Resolve[r] \cap Held
  /\ SameTerms(h, t)
  /\ CountUp(h)
  /\ memo' = Put(MemoAtStart(r), r, h)
  /\ Enroll(l, h, t)
  /\ attached' = attached \cup {h}
  /\ UNCHANGED <<table, stops, closing, subs>>

AcquireConflict_Undoes(r, t, h) ==
  /\ Callable
  /\ ~Remembered(r)
  /\ h \in Resolve[r] \cap Held
  /\ ~SameTerms(h, t)
  /\ memo' = Put(MemoAtStart(r), r, h)
  /\ attached' = attached \ {h}
  /\ UNCHANGED <<table, records, live, lease, stops, closing, subs, claim>>

\* The same on other terms: ConflictingLease after the wire.  The alias is
\* kept, and no stop goes out.
AcquireConflict(r, t, h) ==
  /\ Callable
  /\ ~Remembered(r)
  /\ h \in Resolve[r] \cap Held
  /\ ~SameTerms(h, t)
  /\ memo' = Put(MemoAtStart(r), r, h)
  /\ attached' = attached \cup {h}
  /\ UNCHANGED <<table, records, live, lease, stops, closing, subs, claim>>

\* StartFn fails, and its error is the answer.
AcquireFailed(r) ==
  /\ Callable
  /\ ~Remembered(r)
  /\ memo' = MemoAtStart(r)
  /\ \/ UNCHANGED attached
     \/ /\ "start_late" \in Permit
        /\ \E h \in Resolve[r] : attached' = attached \cup {h}
  /\ UNCHANGED <<table, records, live, lease, stops, closing, subs, claim>>

---------------------------------------------------------------------------
(* Giving a claim up: ~RelationLease, move construction and assignment,    *)
(* force_detach_process_from.                                              *)

CountDown(h) == records' = [records EXCEPT ![h].count = @ - 1]

ReleaseAtOnce_OffByOne(h) ==
  \/ h \notin Held /\ UNCHANGED records
  \/ h \in Held /\ records[h].count >= 1 /\ CountDown(h)

ReleaseAtOnce_Forgotten(h) ==
  /\ h \in Held => records[h].count > 1
  /\ UNCHANGED records

\* release_one on a handle without a record, or with other claims on it.
ReleaseAtOnce(h) ==
  \/ h \notin Held /\ UNCHANGED records
  \/ h \in Held /\ records[h].count > 1 /\ CountDown(h)

IsLast_Any(h) == h \in Held

\* release_one of the last claim.
IsLast(h) == h \in Held /\ records[h].count = 1

\* Not the record the destructor's loop stands on, whose erasure leaves that
\* loop an invalid iterator.
MayRetire(h) ==
  /\ Len(stops) < MaxNesting
  /\ stops # <<>> /\ Visiting(1) => h # stops[1].handle

Retire_KeepsAliases(h, dst, src) ==
  /\ MayRetire(h)
  /\ closing' = closing \ {h}
  /\ records' = Without(records, {h})
  /\ stops' = Append(stops, [handle |-> h, sent |-> FALSE,
                             dst |-> dst, src |-> src])
  /\ UNCHANGED memo

Retire_KeepsRecord(h, dst, src) ==
  /\ MayRetire(h)
  /\ closing' = closing \ {h}
  /\ stops' = Append(stops, [handle |-> h, sent |-> FALSE,
                             dst |-> dst, src |-> src])
  /\ UNCHANGED <<records, memo>>

Retire_Silent(h, dst, src) ==
  /\ MayRetire(h)
  /\ closing' = closing \ {h}
  /\ records' = Without(records, {h})
  /\ memo' = Without(memo, Aliases(h))
  /\ stops' = Append(stops, [handle |-> h, sent |-> TRUE,
                             dst |-> dst, src |-> src])

\* retire, up to the call of stop_: the record and its aliases go, its
\* subscriber is kept in a local.
Retire(h, dst, src) ==
  /\ MayRetire(h)
  /\ closing' = closing \ {h}
  /\ records' = Without(records, {h})
  /\ memo' = Without(memo, Aliases(h))
  /\ stops' = Append(stops, [handle |-> h, sent |-> FALSE,
                             dst |-> dst, src |-> src])

\* The claims that stood on a record end with it.
Unclaim(h) == [l \in Lease |-> IF lease[l] = h THEN None ELSE claim[l]]

Destroy(l) ==
  /\ Callable /\ Engaged(l)
  /\ live' = live \ {l}
  /\ lease' = [lease EXCEPT ![l] = None]
  /\ \/ /\ ReleaseAtOnce(lease[l])
        /\ claim' = [claim EXCEPT ![l] = None]
        /\ UNCHANGED <<memo, stops, closing>>
     \/ /\ IsLast(lease[l])
        /\ Retire(lease[l], None, None)
        /\ claim' = Unclaim(lease[l])
  /\ UNCHANGED <<table, engine>>

Rebind_Appends(leases, from, to) ==
  IF from \in leases THEN leases \cup {to} ELSE leases

\* rebind: the slot of live_ that held one lease holds the other.
Rebind(leases, from, to) ==
  IF from \in leases THEN (leases \ {from}) \cup {to} ELSE leases

\* dst takes table_ and handle_ over from src, whose table_ becomes null.
TakeOver(dst, src, leases) ==
  /\ lease' = [lease EXCEPT ![dst] = lease[src], ![src] = None]
  /\ live' = Rebind(leases, src, dst)
  /\ claim' = [claim EXCEPT ![dst] = claim[src], ![src] = None]

\* The move constructor, and move assignment to a lease whose table_ is null.
Move(dst, src) ==
  /\ Callable /\ Vacant(dst) /\ Engaged(src)
  /\ TakeOver(dst, src, live)
  /\ UNCHANGED <<table, records, memo, stops, closing, engine>>

\* Move assignment over a claim: the claim is released, then src is read.
MoveAssign(dst, src) ==
  /\ Callable /\ dst # src /\ Engaged(dst) /\ Engaged(src)
  /\ \/ /\ ReleaseAtOnce(lease[dst])
        /\ TakeOver(dst, src, live \ {dst})
        /\ UNCHANGED <<memo, stops, closing>>
     \/ /\ IsLast(lease[dst])
        /\ Retire(lease[dst], dst, src)
        /\ live' = live \ {dst}
        /\ claim' = Unclaim(lease[dst])
        /\ UNCHANGED lease
  /\ UNCHANGED <<table, engine>>

\* Move assignment from a lease whose table_ is null: the claim is released
\* and dst's table_ becomes null, as if it had been destroyed; see Destroy.

ForceDetach(h) ==
  /\ "force_detach" \in Permit
  /\ Callable
  /\ h \in Held
  /\ Retire(h, None, None)
  /\ claim' = Unclaim(h)
  /\ UNCHANGED <<table, live, lease, engine>>

---------------------------------------------------------------------------
(* The rest of retire.                                                     *)

\* The stop reaches the engine, which answers Inactive, or it is lost.
StopReaches(h) ==
  \/ attached' = attached \ {h}
  \/ "stop_lost" \in Permit /\ UNCHANGED attached

SendStop ==
  /\ stops # <<>> /\ ~Top.sent
  /\ stops' = [stops EXCEPT ![Len(stops)].sent = TRUE]
  /\ StopReaches(Top.handle)
  /\ UNCHANGED <<table, records, memo, live, lease, closing, subs, claim>>

Undeclare_Never(hs) == hs \subseteq Handle /\ UNCHANGED subs

\* The subscribers of some streams leave scope.
Undeclare(hs) ==
  subs' = [h \in Handle |-> IF h \in hs /\ Subscribes THEN subs[h] - 1
                                                      ELSE subs[h]]

\* StopFn returns, the subscriber of a retired record leaves scope, and a
\* move assignment that released the claim goes on.
EndStop ==
  /\ stops # <<>> /\ Top.sent
  /\ stops' = SubSeq(stops, 1, Len(stops) - 1)
  /\ Undeclare({Top.handle : i \in {Len(stops)} \cap Retirements})
  /\ IF Top.dst = None THEN UNCHANGED <<lease, live, claim>>
                       ELSE TakeOver(Top.dst, Top.src, live)
  /\ UNCHANGED <<table, records, memo, closing, attached>>

---------------------------------------------------------------------------
(* ~RelationLeaseTable: every lease is detached, every record is stopped   *)
(* while it still stands, then the records and the subscribers go.         *)

BeginClose ==
  /\ table = "open" /\ stops = <<>>
  /\ table' = "closing"
  /\ lease' = [l \in Lease |-> IF l \in live THEN None ELSE lease[l]]
  /\ live' = {}
  /\ claim' = [l \in Lease |-> None]
  /\ closing' = Held
  /\ UNCHANGED <<records, memo, stops, engine>>

\* The loop calls StopFn for one of the records it has still to stop; SendStop
\* and EndStop are the rest of that call.
CloseStop(h) ==
  /\ table = "closing" /\ stops = <<>>
  /\ h \in closing
  /\ closing' = closing \ {h}
  /\ stops' = <<[handle |-> h, sent |-> FALSE, dst |-> None, src |-> None]>>
  /\ UNCHANGED <<table, records, memo, live, lease, engine, claim>>

\* A lease that a StopFn has taken since BeginClose is not detached.
EndClose ==
  /\ table = "closing" /\ closing = {} /\ stops = <<>>
  /\ table' = "none"
  /\ Undeclare(Held)
  /\ records' = Empty
  /\ memo' = Empty
  /\ lease' = [l \in Lease |-> IF l \in live THEN Dangling ELSE lease[l]]
  /\ live' = {}
  /\ claim' = [l \in Lease |-> None]
  /\ UNCHANGED <<stops, closing, attached>>

Acquire(r, t) ==
  \/ AcquireRefused(r, t)
  \/ AcquireFailed(r)
  \/ \E h \in Handle : AcquireConflict(r, t, h)
  \/ \E l \in Lease :
       \/ AcquireShared(r, t, l)
       \/ \E h \in Handle : AcquireFirst(r, t, l, h) \/ AcquireAlias(r, t, l, h)

Next ==
  \/ Construct
  \/ \E r \in Relation, t \in Terms : Acquire(r, t)
  \/ \E l \in Lease : Destroy(l)
  \/ \E dst, src \in Lease : Move(dst, src) \/ MoveAssign(dst, src)
  \/ \E h \in Handle : ForceDetach(h)
  \/ SendStop
  \/ EndStop
  \/ BeginClose
  \/ \E h \in Handle : CloseStop(h)
  \/ EndClose

Spec == Init /\ [][Next]_vars

---------------------------------------------------------------------------
(* What the table must get right.                                          *)

TypeOK ==
  /\ table \in {"none", "open", "closing"}
  /\ Held \subseteq Handle /\ records \in [Held -> Record]
  /\ DOMAIN memo \subseteq Relation /\ memo \in [DOMAIN memo -> Handle]
  /\ live \subseteq Lease
  /\ lease \in [Lease -> Handle \cup {None, Dangling}]
  /\ stops \in Seq(Frame)
  /\ closing \subseteq Handle
  /\ attached \subseteq Handle
  /\ subs \in [Handle -> Int]
  /\ claim \in [Lease -> Terms \cup {None}]

(* No record outlives its claims, and none counts more of them than there  *)
(* are: the last holder to let go always reaches the stop, whatever was    *)
(* moved, overwritten, nested or detached by force on the way              *)
(* (release_one, the move operations, retire).                             *)
NeverOvercounts ==
  table = "open" =>
    \A h \in Held : records[h].count <= Cardinality(CountedOn(h))

(* As long as nobody uses the escape hatch, a handle's count is the number *)
(* of lease objects on it: a release that is not the last one leaves the   *)
(* stream to the others, and every lease stands for a held stream.         *)
CountsTheClaims ==
  table = "open" /\ "force_detach" \notin Permit =>
    \A h \in Handle :
      Cardinality(LiveOn(h)) = IF h \in Held THEN records[h].count ELSE 0

(* Everybody sharing a stream asked for it on the terms of its record:     *)
(* acquire refuses the others, with and without a start, and no moved      *)
(* lease ends up on a stream with other terms.                             *)
SharedOnEqualTerms ==
  \A l \in Lease : claim[l] # None =>
    /\ l \in live
    /\ lease[l] \in Held
    /\ records[lease[l]].terms = claim[l]

(* The memo holds a spelling of every record and of nothing else: the      *)
(* stale alias acquire repairs "cannot happen through this class's own     *)
(* paths", and distinct_relations() falls back to zero with size().        *)
AliasesResolve ==
  /\ \A r \in DOMAIN memo : memo[r] \in Held
  /\ \A h \in Held : Aliases(h) # {}

(* live_ lists exactly the lease objects that point at the table, the one  *)
(* under assignment apart, also after whatever the StopFn of an assignment *)
(* did to the object it assigns from.  A lease whose table has died is     *)
(* never left pointing at it unless a StopFn took it from the table while  *)
(* ~RelationLeaseTable ran.                                                *)
NoDanglingLease ==
  /\ live = {l \in Lease : lease[l] \in Handle /\ ~Receiving(l)}
  /\ table = "none" => live = {} /\ stops = <<>>
  /\ "close_call" \notin Permit =>
       \A l \in Lease : lease[l] # Dangling /\ (table # "open" => l \notin live)

(* The comment on ~RelationLeaseTable: it "detaches every live lease so    *)
(* that none of them dereferences this table afterwards", since "the       *)
(* alternative is a dangling pointer in a destructor".                     *)
NoneOutlivesTheTable == \A l \in Lease : lease[l] # Dangling

(* A handle the table holds, and would hand to the next acquire without a  *)
(* start, is one the engine still has this client attached to, unless      *)
(* StopFn called the table before it sent its stop.  ~RelationLeaseTable   *)
(* stops each record once.                                                 *)
HeldIsAttached ==
  "early_call" \notin Permit =>
    /\ table = "open" => Held \subseteq attached
    /\ closing \subseteq Held \cap attached

(* When starts and stops do what they answer, and nobody calls a table     *)
(* that is being destroyed, the engine has this client attached to no      *)
(* stream beyond those the table holds or is stopping: a refused acquire   *)
(* leaves nothing to undo.                                                 *)
NothingLeftAttached ==
  Permit \cap {"start_late", "stop_lost", "close_call"} = {} =>
    \A h \in attached :
      \/ h \in Held /\ (table = "closing" => h \in closing)
      \/ \E i \in DOMAIN stops : stops[i].handle = h /\ ~stops[i].sent

(* The stop that retire is about to send detaches nobody's claim: since    *)
(* the record went first, what StopFn finds is a count of zero.            *)
StopsOnlyUnclaimed ==
  "early_call" \notin Permit =>
    \A i \in Retirements : ~stops[i].sent =>
      stops[i].handle \notin Held /\ CountedOn(stops[i].handle) = {}

(* One declared status subscriber per record, however many components      *)
(* share it and however many starts were redundant, and one per stop in    *)
(* progress: none is left on a dead key, and somebody hears the status of  *)
(* a stream until the StopFn that ends it has returned, also under         *)
(* ~RelationLeaseTable (retire's order, and the destructor's).             *)
OneSubscriberEach ==
  Subscribes =>
    \A h \in Handle :
      subs[h] = (IF h \in Held THEN 1 ELSE 0)
                + Cardinality({i \in Retirements : stops[i].handle = h})

(* Giving up one claim never takes a stream from another: a record leaves  *)
(* an open table when its only claim is given up.                          *)
OthersKeepTheStream ==
  [][\A h \in Held \ Held' :
       table' = "open" => Cardinality(LiveOn(h)) <= 1]_vars

(* The table keeps the promise of StreamClaims unless somebody detaches by *)
(* force or calls it under its destructor: a listed lease is a claim, the  *)
(* record gives a stream its terms, and the stops that have not been sent  *)
(* are due.  With counts, aliases, moves that wait for stops and StopFns   *)
(* that come back in, a stream is still stopped once for each time its     *)
(* last claim ends, and never else.                                        *)
Claims == INSTANCE StreamClaims WITH
  Claim <- Lease,
  Stream <- Handle,
  holds <- [l \in Lease |-> IF l \in live THEN lease[l] ELSE None],
  agreed <- [h \in Handle |->
               IF table = "open" /\ h \in Held THEN records[h].terms ELSE None],
  due <- [h \in Handle |->
            Cardinality({i \in DOMAIN stops : stops[i].handle = h /\ ~stops[i].sent})
            + IF h \in closing THEN 1 ELSE 0]

KeepsTheClaims == Claims!Spec

(* The comment on force_detach_process_from: a lease whose record it       *)
(* retired "remain[s] a valid object" whose release afterwards "is a       *)
(* no-op".                                                                 *)
StaleReleaseIsNoOp ==
  [][\A l \in live :
       Destroy(l) /\ claim[l] = None => UNCHANGED <<records, memo, stops>>]_vars

==========================================================================
