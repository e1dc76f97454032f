------------------------- MODULE ResultValueProofs -------------------------
(***************************************************************************)
(* Theorems about ResultValue, for every set of objects, errors and values.*)
(***************************************************************************)
EXTENDS ResultValue, FiniteSetTheorems, TLAPS

Content == Value \cup {Raw, MovedFrom}

\* The results in which there is a T.
Whole == {o \in Object : is_ok(o)} \ torn

\* What the variables range over; a torn object takes itself for Ok.
Shape ==
  /\ err \in [Object -> Error \cup {"Ok", NoObject}]
  /\ buffer \in [Object -> Content]
  /\ live \in Int
  /\ torn \subseteq {o \in Object : is_ok(o)}

Kept == Shape /\ EitherValueOrError

\* The buffers a copy or a move leaves behind hold a T where they held one.
Untouched(left) ==
  left \in [Object -> Content] /\ \A o \in Object : left[o] = Raw <=> buffer[o] = Raw

---------------------------------------------------------------------------
(* Either a value or an error.                                             *)

LEMMA ConstructKeeps ==
  ASSUME ConstantsOK, Kept,
         NEW o \in Object, NEW e \in Error \cup {"Ok"}, NEW b \in Content,
         Absent(o), e = "Ok" <=> b # Raw, Construct(o, e, b)
  PROVE  Kept'
<1>1. o \notin torn
  BY DEF Kept, Shape, Absent, is_ok, NoObject
<1>2. /\ err' = [err EXCEPT ![o] = e]
      /\ buffer' = [buffer EXCEPT ![o] = b]
      /\ torn' = torn /\ live' \in Int
  BY DEF Construct, Kept, Shape
<1>3. Shape'
  BY <1>1, <1>2 DEF Kept, Shape, is_ok
<1>4. ASSUME NEW p \in Object
      PROVE  (is_ok(p) /\ p \notin torn <=> buffer[p] # Raw)'
  <2>1. CASE p = o
    BY <1>1, <1>2, <2>1 DEF Kept, Shape, is_ok
  <2>2. CASE p # o
    BY <1>2, <2>2 DEF Kept, Shape, EitherValueOrError, is_ok
  <2> QED
    BY <2>1, <2>2
<1> QED
  BY <1>3, <1>4 DEF Kept, EitherValueOrError

\* Between two objects: err and buffer of dst become those of src.
LEMMA TransferKeeps ==
  ASSUME ConstantsOK, Kept,
         NEW dst \in Object, NEW src \in Object, NEW left,
         dst \notin torn, Exists(src), Untouched(left),
         err' = [err EXCEPT ![dst] = err[src]],
         buffer' = [left EXCEPT ![dst] = buffer[src]],
         torn' = torn, live' \in Int
  PROVE  Kept'
<1>1. Shape'
  BY DEF Kept, Shape, is_ok, Untouched
<1>2. src \notin torn
  BY DEF Exists
<1>3. ASSUME NEW p \in Object
      PROVE  (is_ok(p) /\ p \notin torn <=> buffer[p] # Raw)'
  <2>1. CASE p = dst
    BY <1>2, <2>1 DEF Kept, Shape, EitherValueOrError, is_ok, Untouched
  <2>2. CASE p # dst
    BY <2>2 DEF Kept, Shape, EitherValueOrError, is_ok, Untouched
  <2> QED
    BY <2>1, <2>2
<1> QED
  BY <1>1, <1>3 DEF Kept, EitherValueOrError

\* What a move leaves in its source is a T still.
LEMMA MovedOutUntouched ==
  ASSUME ConstantsOK, Kept, NEW src \in Object, Exists(src)
  PROVE  Untouched(MovedOut(src))
BY DEF Untouched, MovedOut, Kept, Shape, EitherValueOrError, Exists, Content, Raw, MovedFrom

\* An object goes, or is left torn: there is no T in it any more.
LEMMA EmptiedKeeps ==
  ASSUME ConstantsOK, Kept, NEW o \in Object, Exists(o),
         NEW e \in {"Ok", NoObject},
         err' = [err EXCEPT ![o] = e],
         buffer' = [buffer EXCEPT ![o] = Raw],
         torn' = IF e = "Ok" THEN torn \cup {o} ELSE torn,
         live' \in Int
  PROVE  Kept'
<1>1. o \notin torn
  BY DEF Exists
<1>2. Shape'
  BY <1>1 DEF Kept, Shape, is_ok, Content
<1>3. ASSUME NEW p \in Object
      PROVE  (is_ok(p) /\ p \notin torn <=> buffer[p] # Raw)'
  <2>1. CASE p = o
    BY <1>1, <2>1 DEF Kept, Shape, EitherValueOrError, is_ok, NoObject
  <2>2. CASE p # o
    BY <2>2 DEF Kept, Shape, EitherValueOrError, is_ok
  <2> QED
    BY <2>1, <2>2
<1> QED
  BY <1>2, <1>3 DEF Kept, EitherValueOrError

LEMMA StepKeeps ==
  ASSUME ConstantsOK, Kept, [Next]_vars
  PROVE  Kept'
<1>1. \A dst \in Object : Absent(dst) => dst \notin torn
  BY DEF Absent, Kept, Shape, is_ok, NoObject
<1>2. \A dst \in Object : Exists(dst) => dst \notin torn
  BY DEF Exists
<1>3. live \in Int /\ \A o \in Object : T_in(o) \in Int
  BY DEF Kept, Shape, T_in
<1>4. Untouched(buffer)
  BY DEF Untouched, Kept, Shape
<1>5. ASSUME NEW o \in Object, NEW v \in Value, ok(o, v)
      PROVE  Kept'
  <2>1. v \in Content /\ v # Raw
    BY DEF ConstantsOK, Content
  <2> QED
    BY <1>5, <2>1, ConstructKeeps DEF ok
<1>6. ASSUME NEW o \in Object, NEW e \in Error, fail(o, e)
      PROVE  Kept'
  <2>1. e # "Ok" /\ Raw \in Content
    BY DEF ConstantsOK, Content
  <2> QED
    BY <1>6, <2>1, ConstructKeeps DEF fail
<1>7. ASSUME NEW dst \in Object, NEW src \in Object, CopyConstruct(dst, src)
      PROVE  Kept'
  <2>1. live' \in Int
    BY <1>3, <1>7 DEF CopyConstruct, Construct
  <2> QED
    BY <1>1, <1>4, <1>7, <2>1, TransferKeeps DEF CopyConstruct, Construct
<1>8. ASSUME NEW dst \in Object, NEW src \in Object, MoveConstruct(dst, src)
      PROVE  Kept'
  <2>1. live' \in Int
    BY <1>3, <1>8 DEF MoveConstruct
  <2> QED
    BY <1>1, <1>8, <2>1, TransferKeeps, MovedOutUntouched DEF MoveConstruct
<1>9. ASSUME NEW dst \in Object, NEW src \in Object, CopyAssign(dst, src)
      PROVE  Kept'
  <2>1. CASE dst = src
    BY <1>9, <2>1 DEF CopyAssign, vars, Kept, Shape, EitherValueOrError, is_ok
  <2>2. CASE dst # src
    <3>1. live' \in Int
      BY <1>3, <1>9, <2>2 DEF CopyAssign, Assign
    <3> QED
      BY <1>2, <1>4, <1>9, <2>2, <3>1, TransferKeeps DEF CopyAssign, Assign
  <2> QED
    BY <2>1, <2>2
<1>10. ASSUME NEW dst \in Object, NEW src \in Object, MoveAssign(dst, src)
       PROVE  Kept'
  <2>1. CASE dst = src
    BY <1>10, <2>1 DEF MoveAssign, vars, Kept, Shape, EitherValueOrError, is_ok
  <2>2. CASE dst # src
    <3>1. live' \in Int
      BY <1>3, <1>10, <2>2 DEF MoveAssign, Assign
    <3> QED
      BY <1>2, <1>10, <2>2, <3>1, TransferKeeps, MovedOutUntouched DEF MoveAssign, Assign
  <2> QED
    BY <2>1, <2>2
<1>11. ASSUME NEW dst \in Object, NEW src \in Object, CopyAssignThrows(dst, src)
       PROVE  Kept'
  <2>1. live' \in Int
    BY <1>3, <1>11 DEF CopyAssignThrows
  <2> QED
    BY <1>11, <2>1, EmptiedKeeps DEF CopyAssignThrows
<1>12. ASSUME NEW o \in Object, Destroy(o)
       PROVE  Kept'
  <2>1. live' \in Int
    BY <1>3, <1>12 DEF Destroy
  <2>2. NoObject # "Ok"
    BY DEF NoObject
  <2> QED
    BY <1>12, <2>1, <2>2, EmptiedKeeps DEF Destroy
<1>13. CASE UNCHANGED vars
  BY <1>13 DEF vars, Kept, Shape, EitherValueOrError, is_ok
<1> QED
  BY <1>5, <1>6, <1>7, <1>8, <1>9, <1>10, <1>11, <1>12, <1>13 DEF Next

LEMMA InitKeeps ==
  ASSUME ConstantsOK, Init
  PROVE  Kept
<1>1. \A o \in Object : ~is_ok(o) /\ buffer[o] = Raw
  BY DEF Init, is_ok, NoObject
<1>2. Shape
  <2>1. Raw \in Content
    BY DEF Content
  <2> QED
    BY <2>1 DEF Init, Shape
<1> QED
  BY <1>1, <1>2 DEF Kept, EitherValueOrError

LEMMA KeptInvariant == Spec => []Kept
<1>1. ConstantsOK /\ Init => Kept
  BY InitKeeps
<1>2. ConstantsOK /\ Kept /\ [Next]_vars => Kept'
  BY StepKeeps
<1> QED
  BY <1>1, <1>2, ConstantsOK, PTL DEF Spec

(* A Result holds either a T or an Error, never both and never neither,    *)
(* through every sequence of constructions, copies, moves and assignments  *)
(* of any number of objects; a copy whose T throws is all there is to      *)
(* except (result.h 19).                                                   *)
THEOREM ValueOrError == Spec => []EitherValueOrError
<1>1. Kept => EitherValueOrError
  BY DEF Kept
<1> QED
  BY <1>1, KeptInvariant, PTL

---------------------------------------------------------------------------
(* Every T is destroyed once.                                              *)

\* Two sets that differ in one element at most.
LEMMA OneApart ==
  ASSUME NEW S, NEW T, NEW x, IsFiniteSet(S), S \ {x} = T \ {x}
  PROVE  Cardinality(T) = Cardinality(S) - (IF x \in S THEN 1 ELSE 0)
                                         + (IF x \in T THEN 1 ELSE 0)
<1> DEFINE Rest == S \ {x}
<1>1. IsFiniteSet(Rest) /\ Cardinality(S) \in Nat
      /\ Cardinality(Rest) = IF x \in S THEN Cardinality(S) - 1 ELSE Cardinality(S)
  BY FS_RemoveElement, FS_CardinalityType
<1>2. CASE x \in T
  <2>1. T = Rest \cup {x} /\ x \notin Rest
    BY <1>2
  <2>2. Cardinality(T) = Cardinality(Rest) + 1
    BY <1>1, <2>1, FS_AddElement
  <2> QED
    BY <1>1, <1>2, <2>2
<1>3. CASE x \notin T
  <2>1. T = Rest
    BY <1>3
  <2> QED
    BY <1>1, <1>3, <2>1
<1> QED
  BY <1>2, <1>3

LEMMA WholeFinite ==
  ASSUME ConstantsOK
  PROVE  IsFiniteSet(Whole)
<1>1. Whole \subseteq Object /\ IsFiniteSet(Object)
  BY DEF Whole, ConstantsOK
<1> QED
  BY <1>1, FS_Subset

\* A step that changes whether there is a T in o, and in no other object,
\* and counts it.
LEMMA StepCounts ==
  ASSUME ConstantsOK, Kept, DestroyedOnce, NEW o \in Object,
         \A p \in Object \ {o} : p \in Whole' <=> p \in Whole,
         live' = live - (IF o \in Whole THEN 1 ELSE 0)
                      + (IF o \in Whole' THEN 1 ELSE 0)
  PROVE  DestroyedOnce'
<1>1. Whole \ {o} = Whole' \ {o}
  <2>1. Whole \subseteq Object /\ Whole' \subseteq Object
    BY DEF Whole
  <2> QED
    BY <2>1
<1>2. Cardinality(Whole') = Cardinality(Whole) - (IF o \in Whole THEN 1 ELSE 0)
                                               + (IF o \in Whole' THEN 1 ELSE 0)
  BY <1>1, WholeFinite, OneApart
<1>3. live = Cardinality(Whole)
  BY DEF DestroyedOnce, Whole
<1>4. live' = Cardinality(Whole')
  BY <1>2, <1>3
<1> QED
  BY <1>4 DEF DestroyedOnce, Whole

LEMMA StepDestroysOnce ==
  ASSUME ConstantsOK, Kept, DestroyedOnce, [Next]_vars
  PROVE  DestroyedOnce'
<1>1. \A o \in Object : Absent(o) => o \notin Whole
  BY DEF Absent, Whole, is_ok, NoObject
<1>2. \A o \in Object : Exists(o) => (o \in Whole <=> is_ok(o))
  BY DEF Exists, Whole
<1>3. live \in Int
  BY DEF Kept, Shape
<1>4. \A o \in Object : Absent(o) => o \notin torn
  BY DEF Absent, Kept, Shape, is_ok, NoObject
<1>5. ASSUME NEW o \in Object, NEW e, NEW b, Absent(o), Construct(o, e, b)
      PROVE  DestroyedOnce'
  <2>1. \A p \in Object \ {o} : p \in Whole' <=> p \in Whole
    BY <1>5 DEF Construct, Whole, is_ok, Kept, Shape
  <2>2. o \in Whole' <=> e = "Ok"
    BY <1>4, <1>5 DEF Construct, Whole, is_ok, Kept, Shape
  <2>3. live' = live - (IF o \in Whole THEN 1 ELSE 0) + (IF o \in Whole' THEN 1 ELSE 0)
    BY <1>1, <1>3, <1>5, <2>2 DEF Construct
  <2> QED
    BY <2>1, <2>3, StepCounts
<1>6. ASSUME NEW dst \in Object, NEW src \in Object, dst \notin torn, Exists(src),
             err' = [err EXCEPT ![dst] = err[src]], torn' = torn,
             live' = live - (IF dst \in Whole THEN 1 ELSE 0) + T_in(src)
      PROVE  DestroyedOnce'
  <2>1. \A p \in Object \ {dst} : p \in Whole' <=> p \in Whole
    BY <1>6 DEF Whole, is_ok, Kept, Shape
  <2>2. dst \in Whole' <=> is_ok(src)
    BY <1>6 DEF Whole, is_ok, Kept, Shape
  <2>3. live' = live - (IF dst \in Whole THEN 1 ELSE 0) + (IF dst \in Whole' THEN 1 ELSE 0)
    BY <1>6, <2>2 DEF T_in
  <2> QED
    BY <2>1, <2>3, StepCounts
<1>7. ASSUME NEW o \in Object, Exists(o), NEW e \in {"Ok", NoObject},
             err' = [err EXCEPT ![o] = e],
             torn' = IF e = "Ok" THEN torn \cup {o} ELSE torn,
             live' = live - T_in(o)
      PROVE  DestroyedOnce'
  <2>1. \A p \in Object \ {o} : p \in Whole' <=> p \in Whole
    BY <1>7 DEF Whole, is_ok, Kept, Shape
  <2>2. o \notin Whole'
    BY <1>7 DEF Whole, is_ok, Kept, Shape, NoObject
  <2>3. live' = live - (IF o \in Whole THEN 1 ELSE 0) + (IF o \in Whole' THEN 1 ELSE 0)
    BY <1>2, <1>3, <1>7, <2>2 DEF T_in
  <2> QED
    BY <2>1, <2>3, StepCounts
<1>8. ASSUME NEW o \in Object, NEW v \in Value, ok(o, v)
      PROVE  DestroyedOnce'
  BY <1>5, <1>8 DEF ok
<1>9. ASSUME NEW o \in Object, NEW e \in Error, fail(o, e)
      PROVE  DestroyedOnce'
  BY <1>5, <1>9 DEF fail
<1>10. ASSUME NEW dst \in Object, NEW src \in Object, CopyConstruct(dst, src)
       PROVE  DestroyedOnce'
  BY <1>5, <1>10 DEF CopyConstruct
<1>11. ASSUME NEW dst \in Object, NEW src \in Object, MoveConstruct(dst, src)
       PROVE  DestroyedOnce'
  <2>1. live' = live - (IF dst \in Whole THEN 1 ELSE 0) + T_in(src)
    BY <1>1, <1>3, <1>11 DEF MoveConstruct
  <2> QED
    BY <1>4, <1>6, <1>11, <2>1 DEF MoveConstruct
<1>12. ASSUME NEW dst \in Object, NEW src \in Object, NEW left,
              Exists(dst), Exists(src), Assign(dst, src, left)
       PROVE  DestroyedOnce'
  <2>1. live' = live - (IF dst \in Whole THEN 1 ELSE 0) + T_in(src)
    BY <1>2, <1>12 DEF Assign, T_in
  <2> QED
    BY <1>6, <1>12, <2>1 DEF Assign, Exists
<1>13. CASE UNCHANGED vars
  BY <1>13 DEF vars, DestroyedOnce, is_ok
<1>14. ASSUME NEW dst \in Object, NEW src \in Object, CopyAssign(dst, src)
       PROVE  DestroyedOnce'
  BY <1>12, <1>13, <1>14 DEF CopyAssign
<1>15. ASSUME NEW dst \in Object, NEW src \in Object, MoveAssign(dst, src)
       PROVE  DestroyedOnce'
  BY <1>12, <1>13, <1>15 DEF MoveAssign
<1>16. ASSUME NEW dst \in Object, NEW src \in Object, CopyAssignThrows(dst, src)
       PROVE  DestroyedOnce'
  BY <1>7, <1>16 DEF CopyAssignThrows
<1>17. ASSUME NEW o \in Object, Destroy(o)
       PROVE  DestroyedOnce'
  <2>1. NoObject # "Ok"
    BY DEF NoObject
  <2> QED
    BY <1>7, <1>17, <2>1 DEF Destroy
<1> QED
  BY <1>8, <1>9, <1>10, <1>11, <1>13, <1>14, <1>15, <1>16, <1>17 DEF Next

(* Every T built in the buffer of a Result is destroyed exactly once, for  *)
(* any number of results and any sequence of operations on them            *)
(* (result.h destroy): the T alive are those of the results that are Ok.   *)
THEOREM EveryValueDestroyedOnce == Spec => []DestroyedOnce
<1>1. ConstantsOK /\ Init => DestroyedOnce
  <2> SUFFICES ASSUME ConstantsOK, Init
               PROVE  DestroyedOnce
    OBVIOUS
  <2>1. {o \in Object : is_ok(o)} \ torn = {}
    BY DEF Init, is_ok, NoObject
  <2> QED
    BY <2>1, FS_EmptySet DEF DestroyedOnce, Init
<1>2. ConstantsOK /\ Kept /\ DestroyedOnce /\ [Next]_vars => DestroyedOnce'
  BY StepDestroysOnce
<1> QED
  BY <1>1, <1>2, KeptInvariant, ConstantsOK, PTL DEF Spec

============================================================================
