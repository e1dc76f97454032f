--------------------------- MODULE ResultValue ---------------------------
(***************************************************************************)
(* Result<T> (tcn/sqe/result.h): an Error and a buffer, in which there is  *)
(* a T while the error is Ok.  The class manages the T by hand, so that    *)
(* what the compiler keeps straight elsewhere is kept straight here by     *)
(* err_ alone: it decides what is copied, moved and destroyed.             *)
(*                                                                         *)
(* An operator whose name has an underscore after the name of another is   *)
(* that operator with a mistake.                                           *)
(***************************************************************************)
EXTENDS Integers, FiniteSets

CONSTANTS
  Object,    \* variables of type Result<T>
  Error,     \* errors, Ok aside
  Value      \* values of type T

Raw == "no T in the buffer"
MovedFrom == "a T that was moved from"
NoObject == "no object"

ASSUME ConstantsOK ==
  /\ IsFiniteSet(Object)
  /\ {"Ok", NoObject} \cap Error = {} /\ {Raw, MovedFrom} \cap Value = {}

VARIABLES
  err,      \* err_ of each object
  buffer,   \* what buf_ holds
  live,     \* history: T objects constructed in buffers less those destroyed
  torn      \* history: the objects a throw left between two values

vars == <<err, buffer, live, torn>>

\* What is done with a torn object, its destruction included, is undefined.
Exists(o) == err[o] # NoObject /\ o \notin torn
Absent(o) == err[o] = NoObject
is_ok(o) == err[o] = "Ok"

\* The number of T that is_ok stands for in o.
T_in(o) == IF is_ok(o) THEN 1 ELSE 0

Init ==
  /\ err = [o \in Object |-> NoObject]
  /\ buffer = [o \in Object |-> Raw]
  /\ live = 0
  /\ torn = {}

\* The buffer is taken for empty; err_ decides whether there is a T to build.
Construct(o, e, b) ==
  /\ err' = [err EXCEPT ![o] = e]
  /\ buffer' = [buffer EXCEPT ![o] = b]
  /\ live' = live + (IF e = "Ok" THEN 1 ELSE 0)
  /\ UNCHANGED torn

ok(o, v) == Absent(o) /\ Construct(o, "Ok", v)

\* Precondition, asserted: e is an error.
fail(o, e) == Absent(o) /\ Construct(o, e, Raw)

\* A copy constructor that throws leaves no object.
CopyConstruct(dst, src) ==
  /\ Absent(dst) /\ Exists(src)
  /\ Construct(dst, err[src], buffer[src])

MovedOut_Gone(src) == [buffer EXCEPT ![src] = Raw]

\* What a move leaves in src: still a T, for src's destructor to destroy.
MovedOut(src) == [buffer EXCEPT ![src] = IF is_ok(src) THEN MovedFrom ELSE @]

MoveConstruct(dst, src) ==
  /\ Absent(dst) /\ Exists(src)
  /\ err' = [err EXCEPT ![dst] = err[src]]
  /\ buffer' = [MovedOut(src) EXCEPT ![dst] = buffer[src]]
  /\ live' = live + T_in(src)
  /\ UNCHANGED torn

\* operator=, in its order: destroy, err_, construct.  left is what there
\* will be in the other buffers.
Assign(dst, src, left) ==
  /\ err' = [err EXCEPT ![dst] = err[src]]
  /\ buffer' = [left EXCEPT ![dst] = buffer[src]]
  /\ live' = live - T_in(dst) + T_in(src)
  /\ UNCHANGED torn

CopyAssign(dst, src) ==
  /\ Exists(dst) /\ Exists(src)
  /\ IF dst = src THEN UNCHANGED vars ELSE Assign(dst, src, buffer)

\* T's copy constructor throws: err_ is set, and there is no T behind it.
CopyAssignThrows(dst, src) ==
  /\ Exists(dst) /\ Exists(src) /\ dst # src /\ is_ok(src)
  /\ err' = [err EXCEPT ![dst] = "Ok"]
  /\ buffer' = [buffer EXCEPT ![dst] = Raw]
  /\ live' = live - T_in(dst)
  /\ torn' = torn \cup {dst}

MoveAssign_ErrorFirst(dst, src) ==
  /\ Exists(dst) /\ Exists(src) /\ dst # src
  /\ err' = [err EXCEPT ![dst] = err[src]]
  /\ buffer' = [MovedOut(src) EXCEPT ![dst] = buffer[src]]
  /\ UNCHANGED <<live, torn>>

MoveAssign(dst, src) ==
  /\ Exists(dst) /\ Exists(src)
  /\ IF dst = src THEN UNCHANGED vars ELSE Assign(dst, src, MovedOut(src))

Destroy(o) ==
  /\ Exists(o)
  /\ err' = [err EXCEPT ![o] = NoObject]
  /\ buffer' = [buffer EXCEPT ![o] = Raw]
  /\ live' = live - T_in(o)
  /\ UNCHANGED torn

Next ==
  \/ \E o \in Object, v \in Value : ok(o, v)
  \/ \E o \in Object, e \in Error : fail(o, e)
  \/ \E dst, src \in Object :
       \/ CopyConstruct(dst, src) \/ MoveConstruct(dst, src)
       \/ CopyAssign(dst, src) \/ CopyAssignThrows(dst, src) \/ MoveAssign(dst, src)
  \/ \E o \in Object : Destroy(o)

Spec == Init /\ [][Next]_vars

---------------------------------------------------------------------------

(* A Result holds either a T or an Error, never both and never neither,    *)
(* after any sequence of copies, moves and assignments: what value()       *)
(* returns under its precondition is a T, and no T is out of reach of the  *)
(* destructor.  Only a copy assignment in which T's copy constructor throws *)
(* leaves neither (the comment on the class, result.h 19; operator= 55).   *)
EitherValueOrError ==
  \A o \in Object : is_ok(o) /\ o \notin torn <=> buffer[o] # Raw

(* Every T that is built in a buffer is destroyed exactly once: those      *)
(* alive are those of the results that are Ok, and none is left when the   *)
(* results are gone (result.h destroy; its test counts them in g_live, for *)
(* one sequence).                                                          *)
DestroyedOnce == live = Cardinality({o \in Object : is_ok(o)} \ torn)

==========================================================================
