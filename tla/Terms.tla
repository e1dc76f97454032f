------------------------------ MODULE Terms ------------------------------
(***************************************************************************)
(* RelationStreamRequest (tcn/sqe/relation.h): which requests can be made, *)
(* when two of them ask for the same relation, and when for the same terms.*)
(*                                                                         *)
(* LeaseTable takes relations as opaque keys and terms as opaque values.   *)
(* That is right only if operator< orders relations strictly and totally   *)
(* (memo_ is a std::map), and if same_terms_as is an equivalence, although *)
(* it compares doubles, which may be NaN and have two zeros.               *)
(***************************************************************************)
EXTENDS Integers

CONSTANTS
  Name,      \* client ids and node names, ordered as std::string orders them
  Hz,        \* the rates a caller asks for
  Bias,      \* the freshness biases a caller asks for
  Topic      \* the topics of on-stream triggers; "" is the empty one

\* Doubles, by their place in the order of the reals; NaN has none.
Place == [minus_one |-> -10, minus_zero |-> 0, zero |-> 0, half |-> 5,
          one |-> 10, thirty |-> 300, thirty_and_a_bit |-> 301,
          giga |-> 1000, infinity |-> 1001]

Double == DOMAIN Place \cup {"nan"}

\* IEEE 754 comparisons: each is false of a NaN.
Ordered(a, b) == a # "nan" /\ b # "nan"
Less(a, b) == Ordered(a, b) /\ Place[a] < Place[b]
Same(a, b) == Ordered(a, b) /\ Place[a] = Place[b]

ASSUME ConstantsOK ==
  /\ Name \subseteq Int
  /\ Hz \subseteq Double /\ Bias \subseteq Double
  /\ Topic \subseteq STRING

---------------------------------------------------------------------------
(* Relations.                                                              *)

Frame == [client : Name, node : Name]
Relation == [observer : Frame, target : Frame]

FrameLess_ByParts(a, b) == a.client < b.client \/ a.node < b.node

FrameLess(a, b) ==
  \/ a.client < b.client
  \/ a.client = b.client /\ a.node < b.node

RelationLess(a, b) ==
  \/ FrameLess(a.observer, b.observer)
  \/ ~FrameLess(b.observer, a.observer) /\ FrameLess(a.target, b.target)

---------------------------------------------------------------------------
(* Terms.                                                                  *)

\* The triggers as they are built: a field a kind does not use is fixed.
Trigger(kind, hz, topic, policy) ==
  [kind |-> kind, hz |-> hz, topic |-> topic, policy |-> policy]

RateOK_ByRefusal(hz) == ~(Less(hz, "zero") \/ Same(hz, "zero"))

\* fixed_rate: a positive test, so that NaN is refused, and an upper bound.
RateOK(hz) == Less("zero", hz) /\ Less(hz, "giga")

AnyTrigger ==
  {Trigger("fixed_rate", hz, "", "first") : hz \in {r \in Hz : RateOK(r)}}
  \cup {Trigger("on_stream", "zero", topic, "first") : topic \in Topic \ {""}}
  \cup {Trigger("on_any", "zero", "", "first")}
  \cup {Trigger("on_reference", "zero", "", policy) :
          policy \in {"first", "fastest", "slowest"}}

\* make: the bias lies in [0, 1].
BiasOK(bias) ==
  /\ Less("zero", bias) \/ Same("zero", bias)
  /\ Less(bias, "one") \/ Same(bias, "one")

Term == [trigger : AnyTrigger, bias : {b \in Bias : BiasOK(b)}]

\* operator==, on the field the kind uses.
SameTrigger(a, b) ==
  /\ a.kind = b.kind
  /\ a.kind = "fixed_rate" => Same(a.hz, b.hz)
  /\ a.kind = "on_stream" => a.topic = b.topic
  /\ a.kind = "on_reference" => a.policy = b.policy

same_terms_as(a, b) == SameTrigger(a.trigger, b.trigger) /\ Same(a.bias, b.bias)

---------------------------------------------------------------------------
(* Components make requests, one after another.                            *)

Request == [relation : Relation, terms : Term]

VARIABLE made    \* the request made last

Init == made \in Request

Make(relation, terms) == made' = [relation |-> relation, terms |-> terms]

Next == \E relation \in Relation, terms \in Term : Make(relation, terms)

Spec == Init /\ [][Next]_made

(* operator< is a strict total order of the relations that can be asked    *)
(* for, whose only ties are equal relations: the memo, a std::map, finds a *)
(* relation where it put it and mistakes none for another (relation.h,     *)
(* FrameRef and Relation operator<).                                       *)
RelationsAreOrdered ==
  LET a == made.relation
  IN  \A b, c \in Relation :
        /\ RelationLess(a, b) => ~RelationLess(b, a)
        /\ RelationLess(a, b) /\ RelationLess(b, c) => RelationLess(a, c)
        /\ a = b <=> ~RelationLess(a, b) /\ ~RelationLess(b, a)

(* Terms count as the same exactly when they ask the engine for the same    *)
(* stream: they differ at most in the sign of a zero bias.  Hence this is   *)
(* an equivalence, although it compares doubles: all who share a record     *)
(* agree with each other because each agreed with the record, and a         *)
(* component that repeats its own request is never refused (relation.h      *)
(* same_terms_as; no NaN gets past fixed_rate or make).                     *)
SameTermsAskTheSame ==
  \A b \in Term : same_terms_as(made.terms, b) <=>
    /\ made.terms.trigger = b.trigger
    /\ \/ made.terms.bias = b.bias
       \/ {made.terms.bias, b.bias} \subseteq {"zero", "minus_zero"}

==========================================================================
