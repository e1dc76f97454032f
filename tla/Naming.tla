------------------------------ MODULE Naming ------------------------------
(***************************************************************************)
(* The two naming rules and the id that mixes them: tcn/sqe/validate.h,    *)
(* client_id.h and node_name.h.                                            *)
(*                                                                         *)
(* A name is a sequence of bytes.  Init is the empty one and Next appends  *)
(* a byte, so that the reachable states are the names over Byte of at most *)
(* MaxLength bytes; every property is about all of them.                   *)
(***************************************************************************)
EXTENDS Integers, Sequences

CONSTANTS
  Byte,        \* the bytes names are made of, some of 0 .. 255
  MaxLength    \* bound: the length of a name

ASSUME ConstantsOK == Byte \subseteq 0 .. 255 /\ MaxLength \in Nat

VARIABLE name

Colon == 58
Slash == 47
Separator == <<Colon, Colon>>    \* kNodeIdSeparator

First(S) == CHOOSE i \in S : \A j \in S : i <= j
Last(S) == CHOOSE i \in S : \A j \in S : j <= i

---------------------------------------------------------------------------
(* validate.h.                                                             *)

is_identifier_char(c) ==
  \/ c \in 65 .. 90 \/ c \in 97 .. 122    \* A .. Z, a .. z
  \/ c \in 48 .. 57                       \* 0 .. 9
  \/ c \in {95, 46, Colon, 45}            \* _ . : -

is_fragment_char(c) == is_identifier_char(c) \/ c = Slash

valid_identifier(s) == s # <<>> /\ \A i \in DOMAIN s : is_identifier_char(s[i])

valid_fragment_Ends(s) ==
  /\ s # <<>> /\ \A i \in DOMAIN s : is_fragment_char(s[i])
  /\ s[1] # Slash /\ s[Len(s)] # Slash

valid_fragment(s) ==
  /\ s # <<>>
  /\ \A i \in DOMAIN s : is_fragment_char(s[i])
  /\ s[1] # Slash /\ s[Len(s)] # Slash
  /\ \A i \in 2 .. Len(s) : ~(s[i] = Slash /\ s[i - 1] = Slash)

\* Why a byte was refused; the first reason that applies.
classify_rejected_byte(c) ==
  IF c >= 128 THEN "NonAscii"
  ELSE IF c \in {42, 63, 35, 36} THEN "ContainsWildcard"    \* * ? # $
  ELSE IF c <= 32 \/ c = 127 THEN "ContainsWhitespace"
  ELSE IF c = Slash THEN "ContainsSlash"
  ELSE "IllegalCharacter"

Refused(s, i) == classify_rejected_byte(s[i])

check_identifier(s) ==
  LET bad == {i \in DOMAIN s : ~is_identifier_char(s[i])}
  IN  IF s = <<>> THEN "Empty"
      ELSE IF bad # {} THEN Refused(s, First(bad))
      ELSE "Ok"

\* The alphabet first, then the chunks.
check_fragment(s) ==
  LET bad == {i \in DOMAIN s : ~is_fragment_char(s[i])}
  IN  IF s = <<>> THEN "Empty"
      ELSE IF bad # {} THEN Refused(s, First(bad))
      ELSE IF s[1] = Slash THEN "LeadingSlash"
      ELSE IF s[Len(s)] = Slash THEN "TrailingSlash"
      ELSE IF \E i \in 2 .. Len(s) : s[i] = Slash /\ s[i - 1] = Slash
           THEN "EmptyChunk"
      ELSE "Ok"

---------------------------------------------------------------------------
(* node_name.h.                                                            *)

\* The places in s where "::" starts.
SeparatorsOf(s) ==
  {i \in 1 .. Len(s) - 1 : SubSeq(s, i, i + 1) = Separator}

compose(fragment, node) == fragment \o Separator \o node

Refusal(error) == [ok |-> FALSE, error |-> error, fragment |-> <<>>, node |-> <<>>]

\* The two halves around the separator at a, each under its own rule.
Halves(s, at) ==
  LET fragment == SubSeq(s, 1, at - 1)
      node == SubSeq(s, at + Len(Separator), Len(s))
  IN  IF check_fragment(fragment) # "Ok" THEN Refusal(check_fragment(fragment))
      ELSE IF check_identifier(node) # "Ok" THEN Refusal(check_identifier(node))
      ELSE [ok |-> TRUE, error |-> "Ok", fragment |-> fragment, node |-> node]

parse_AtTheLast(s) ==
  IF SeparatorsOf(s) = {} THEN Refusal("IllegalCharacter")
                          ELSE Halves(s, Last(SeparatorsOf(s)))

\* LocalNodeId::parse.
parse(s) ==
  IF SeparatorsOf(s) = {} THEN Refusal("IllegalCharacter")
                          ELSE Halves(s, First(SeparatorsOf(s)))

---------------------------------------------------------------------------

Init == name = <<>>

Extend(c) == Len(name) < MaxLength /\ name' = Append(name, c)

Next == \E c \in Byte : Extend(c)

Spec == Init /\ [][Next]_name

---------------------------------------------------------------------------
(* What the rules promise.                                                 *)

\* Where the chunks of s are cut: at each slash, and at the ends.
Cuts(s) == {0, Len(s) + 1} \cup {i \in DOMAIN s : s[i] = Slash}

\* Two cuts with none between them.
Consecutive(cuts, a, b) == a < b /\ \A c \in cuts : c <= a \/ b <= c

\* The chunks of s: what lies between consecutive cuts.
Chunks(s) ==
  {SubSeq(s, p[1] + 1, p[2] - 1) :
     p \in {q \in Cuts(s) \X Cuts(s) : Consecutive(Cuts(s), q[1], q[2])}}

(* A fragment is a slash-separated path of identifiers: the scan over      *)
(* bytes, ends and neighbours admits exactly the names each chunk of which *)
(* is an identifier, so that a suffix appended to a client id is a key     *)
(* without empty chunks.  And the diagnosis is no second rule: the check_  *)
(* functions accept what the valid_ functions accept, which the library    *)
(* uses interchangeably (validate.h).                                      *)
FragmentsArePaths ==
  LET path == \A chunk \in Chunks(name) : valid_identifier(chunk)
  IN  /\ valid_fragment(name) <=> path
      /\ check_fragment(name) = "Ok" <=> path
      /\ check_identifier(name) = "Ok" <=> valid_identifier(name)

(* What parse accepts is a composition of the halves it finds, and no      *)
(* other split of the id has a first half that is free of the separator:   *)
(* two nodes of separator-free clients never share an id, and parse finds  *)
(* the client that owns one (node_name.h compose and parse).               *)
ParseUndoesCompose ==
  /\ parse(name).ok => compose(parse(name).fragment, parse(name).node) = name
  /\ \A i \in SeparatorsOf(name) :
       LET fragment == SubSeq(name, 1, i - 1)
           node == SubSeq(name, i + 2, Len(name))
       IN  /\ valid_fragment(fragment) /\ valid_identifier(node)
           /\ SeparatorsOf(Append(fragment, Colon)) = {}
           => parse(name) = [ok |-> TRUE, error |-> "Ok",
                             fragment |-> fragment, node |-> node]

==========================================================================
