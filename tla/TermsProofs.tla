---------------------------- MODULE TermsProofs ----------------------------
(***************************************************************************)
(* Theorems about Terms, for all names and topics, and all rates and       *)
(* biases a caller may ask for.                                            *)
(***************************************************************************)
EXTENDS Terms, TLAPS

LEMMA MadeInvariant == Spec => [](made \in Request)
<1>1. Init => made \in Request
  BY DEF Init
<1>2. made \in Request /\ [Next]_made => (made \in Request)'
  BY DEF Next, Make, Request
<1> QED
  BY <1>1, <1>2, PTL DEF Spec

---------------------------------------------------------------------------
(* Relations.                                                              *)

\* operator< of FrameRef is a strict total order.
LEMMA FramesOrdered ==
  ASSUME ConstantsOK, NEW a \in Frame, NEW b \in Frame, NEW c \in Frame
  PROVE  /\ ~FrameLess(a, a)
         /\ FrameLess(a, b) => ~FrameLess(b, a)
         /\ FrameLess(a, b) /\ FrameLess(b, c) => FrameLess(a, c)
         /\ a = b \/ FrameLess(a, b) \/ FrameLess(b, a)
<1>1. \A f \in {a, b, c} : f.client \in Int /\ f.node \in Int
  BY DEF ConstantsOK, Frame
<1>2. a = b <=> a.client = b.client /\ a.node = b.node
  BY DEF Frame
<1> QED
  BY <1>1, <1>2 DEF FrameLess

\* And so is operator< of Relation, which compares observers first.
LEMMA RelationsOrdered ==
  ASSUME ConstantsOK, NEW a \in Relation, NEW b \in Relation, NEW c \in Relation
  PROVE  /\ RelationLess(a, b) => ~RelationLess(b, a)
         /\ RelationLess(a, b) /\ RelationLess(b, c) => RelationLess(a, c)
         /\ a = b <=> ~RelationLess(a, b) /\ ~RelationLess(b, a)
<1>1. \A r \in {a, b, c} : r.observer \in Frame /\ r.target \in Frame
  BY DEF Relation
<1>2. \A x, y, z \in Frame :
        /\ ~FrameLess(x, x)
        /\ FrameLess(x, y) => ~FrameLess(y, x)
        /\ FrameLess(x, y) /\ FrameLess(y, z) => FrameLess(x, z)
        /\ x = y \/ FrameLess(x, y) \/ FrameLess(y, x)
  BY FramesOrdered
<1>3. a = b <=> a.observer = b.observer /\ a.target = b.target
  BY DEF Relation
<1>4. RelationLess(a, b) => ~RelationLess(b, a)
  BY <1>1, <1>2 DEF RelationLess
<1>5. RelationLess(a, b) /\ RelationLess(b, c) => RelationLess(a, c)
  BY <1>1, <1>2 DEF RelationLess
<1>6. a = b <=> ~RelationLess(a, b) /\ ~RelationLess(b, a)
  BY <1>1, <1>2, <1>3 DEF RelationLess
<1> QED
  BY <1>4, <1>5, <1>6

(* operator< is a strict total order of relations, over any set of names,  *)
(* and its only ties are equal relations: what memo_, a std::map, relies   *)
(* on (relation.h, FrameRef and Relation operator<).                       *)
THEOREM RelationOrder == Spec => []RelationsAreOrdered
<1>1. ASSUME made \in Request
      PROVE  RelationsAreOrdered
  <2>1. made.relation \in Relation
    BY <1>1 DEF Request
  <2> QED
    BY <2>1, ConstantsOK, RelationsOrdered DEF RelationsAreOrdered
<1> QED
  BY <1>1, MadeInvariant, PTL

---------------------------------------------------------------------------
(* Terms.                                                                  *)

\* Of the doubles only the two zeros compare equal without being the same.
LEMMA SameDoubles ==
  ASSUME NEW x \in Double, NEW y \in Double
  PROVE  /\ Same(x, y) <=> /\ x # "nan" /\ y # "nan"
                           /\ x = y \/ {x, y} \subseteq {"zero", "minus_zero"}
         /\ Less("zero", x) => x \notin {"nan", "zero", "minus_zero"}
<1>1. DOMAIN Place = {"minus_one", "minus_zero", "zero", "half", "one", "thirty",
                      "thirty_and_a_bit", "giga", "infinity"}
  BY DEF Place
<1>2. /\ Place["minus_one"] = -10 /\ Place["minus_zero"] = 0 /\ Place["zero"] = 0
      /\ Place["half"] = 5 /\ Place["one"] = 10 /\ Place["thirty"] = 300
      /\ Place["thirty_and_a_bit"] = 301 /\ Place["giga"] = 1000
      /\ Place["infinity"] = 1001
  BY DEF Place
<1>3. Less("zero", x) => x \notin {"nan", "zero", "minus_zero"}
  BY <1>2 DEF Less, Ordered
<1>4. ASSUME x # "nan", y # "nan"
      PROVE  Place[x] = Place[y] <=> x = y \/ {x, y} \subseteq {"zero", "minus_zero"}
  <2>1. x \in DOMAIN Place /\ y \in DOMAIN Place
    BY <1>4 DEF Double
  <2> QED
    BY <1>1, <1>2, <2>1
<1> QED
  BY <1>3, <1>4 DEF Same, Ordered

\* A rate that fixed_rate accepts is a positive number.
LEMMA TriggersAgree ==
  ASSUME ConstantsOK, NEW a \in AnyTrigger, NEW b \in AnyTrigger
  PROVE  SameTrigger(a, b) <=> a = b
<1>1. ASSUME NEW t \in AnyTrigger
      PROVE  /\ t = Trigger(t.kind, t.hz, t.topic, t.policy)
             /\ t.kind \in {"fixed_rate", "on_stream", "on_any", "on_reference"}
             /\ t.kind = "fixed_rate" => t.hz \in Double /\ Less("zero", t.hz)
             /\ t.kind # "fixed_rate" => t.hz = "zero"
             /\ t.kind # "on_stream" => t.topic = ""
             /\ t.kind # "on_reference" => t.policy = "first"
  <2>1. CASE \E hz \in Hz : RateOK(hz) /\ t = Trigger("fixed_rate", hz, "", "first")
    <3>1. PICK hz \in Hz : RateOK(hz) /\ t = Trigger("fixed_rate", hz, "", "first")
      BY <2>1
    <3>2. hz \in Double /\ Less("zero", hz)
      BY <3>1 DEF RateOK, ConstantsOK
    <3> QED
      BY <3>1, <3>2 DEF Trigger
  <2>2. CASE \E topic \in Topic : t = Trigger("on_stream", "zero", topic, "first")
    BY <2>2 DEF Trigger
  <2>3. CASE t = Trigger("on_any", "zero", "", "first")
    BY <2>3 DEF Trigger
  <2>4. CASE \E policy \in {"first", "fastest", "slowest"} :
               t = Trigger("on_reference", "zero", "", policy)
    <3>1. PICK policy \in {"first", "fastest", "slowest"} :
                 t = Trigger("on_reference", "zero", "", policy)
      BY <2>4
    <3>2. /\ t.kind = "on_reference" /\ t.hz = "zero" /\ t.topic = ""
          /\ t.policy = policy
      BY <3>1 DEF Trigger
    <3> QED
      BY <3>1, <3>2
  <2> QED
    BY <2>1, <2>2, <2>3, <2>4 DEF AnyTrigger
<1>2. \A x, y \in Double :
        Less("zero", x) /\ Less("zero", y) => (Same(x, y) <=> x = y)
  BY SameDoubles
<1>3. CASE a.kind # b.kind
  BY <1>3 DEF SameTrigger
<1>4. CASE a.kind = b.kind
  <2>1. a = b <=> a.hz = b.hz /\ a.topic = b.topic /\ a.policy = b.policy
    BY <1>1, <1>4
  <2>2. CASE a.kind = "fixed_rate"
    BY <1>1, <1>2, <1>4, <2>1, <2>2 DEF SameTrigger
  <2>3. CASE a.kind = "on_stream"
    BY <1>1, <1>4, <2>1, <2>3 DEF SameTrigger
  <2>4. CASE a.kind = "on_any"
    BY <1>1, <1>4, <2>1, <2>4 DEF SameTrigger
  <2>5. CASE a.kind = "on_reference"
    BY <1>1, <1>4, <2>1, <2>5 DEF SameTrigger
  <2> QED
    BY <1>1, <2>2, <2>3, <2>4, <2>5
<1> QED
  BY <1>3, <1>4

\* A bias that make accepts is a number.
LEMMA BiasIsNumber ==
  ASSUME NEW x, BiasOK(x)
  PROVE  x # "nan"
BY DEF BiasOK, Less, Same, Ordered

(* Terms count as the same exactly when they ask the engine for the same   *)
(* stream, whatever the rates, topics and biases asked for: no NaN gets    *)
(* into them, and two triggers agree only if they are one (relation.h      *)
(* same_terms_as).                                                         *)
THEOREM TermsEquality == Spec => []SameTermsAskTheSame
<1>1. ASSUME made \in Request, NEW b \in Term
      PROVE  same_terms_as(made.terms, b) <=>
               /\ made.terms.trigger = b.trigger
               /\ \/ made.terms.bias = b.bias
                  \/ {made.terms.bias, b.bias} \subseteq {"zero", "minus_zero"}
  <2> DEFINE a == made.terms
  <2>1. a \in Term
    BY <1>1 DEF Request
  <2>2. \A t \in {a, b} : /\ t.trigger \in AnyTrigger
                          /\ t.bias \in Double /\ t.bias # "nan"
    BY <2>1, ConstantsOK, BiasIsNumber DEF Term, ConstantsOK
  <2> HIDE DEF a
  <2>3. SameTrigger(a.trigger, b.trigger) <=> a.trigger = b.trigger
    BY <2>2, ConstantsOK, TriggersAgree
  <2>4. Same(a.bias, b.bias) <=>
          a.bias = b.bias \/ {a.bias, b.bias} \subseteq {"zero", "minus_zero"}
    BY <2>2, SameDoubles
  <2> QED
    BY <2>3, <2>4 DEF same_terms_as, a
<1>2. made \in Request => SameTermsAskTheSame
  BY <1>1 DEF SameTermsAskTheSame
<1> QED
  BY <1>2, MadeInvariant, PTL

============================================================================
