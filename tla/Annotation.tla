---------------------------- MODULE Annotation ----------------------------
(***************************************************************************)
(* The encoding annotation of a payload, media;type;parameters, and the    *)
(* check a reader makes of it: tcn/sqe/wire_type.h.                        *)
(*                                                                         *)
(* An annotation is a sequence of tokens: the separators, digits and dots  *)
(* the code looks at are tokens of their own, a media type or a type name  *)
(* is one token.  Next appends a lexeme, some tokens at once, so that the  *)
(* reachable states are the texts of the families Family names: how a text *)
(* starts, the lexemes it goes on with, and how long it may get.           *)
(***************************************************************************)
EXTENDS Integers, Sequences, FiniteSets

CONSTANTS
  Family,     \* a function from names to families of texts
  Type        \* the names WireType gives

Wanted == <<"0", ".", "9">>    \* kWireSchemaVersion
kEncodingSeparator == ";"
Space == " "
Digit == {"0", "9"}
SchemaParam == <<"tcn_schema">>

ASSUME ConstantsOK ==
  /\ \A f \in DOMAIN Family :
       /\ Family[f].start \in Seq(STRING)
       /\ Family[f].lexeme \subseteq Seq(STRING)
       /\ Family[f].length \in Nat
  /\ Type \subseteq Seq(STRING) \ {<<>>}

\* As the names TCN_SQE_REGISTER_WIRE_TYPE gives.
ASSUME TypeNamesOK ==
  \A type \in Type : \A i \in DOMAIN type : type[i] \notin {kEncodingSeparator, Space}

VARIABLES family, text

---------------------------------------------------------------------------
(* Taking a sequence apart.                                                *)

First(S) == CHOOSE i \in S : \A j \in S : i <= j
Last(S) == CHOOSE i \in S : \A j \in S : j <= i
The(S) == CHOOSE i \in S : TRUE
Nth(S, k) == The({i \in S : Cardinality({j \in S : j <= i}) = k})

Places(s, token) == {i \in DOMAIN s : s[i] = token}

\* The pieces of s between the separators, in order.
Pieces(s, separator) ==
  LET cuts == Places(s, separator) \cup {0, Len(s) + 1}
  IN  [k \in 1 .. Cardinality(cuts) - 1 |->
         SubSeq(s, Nth(cuts, k) + 1, Nth(cuts, k + 1) - 1)]

\* trim_ascii.
Trim(s) ==
  LET inked == {i \in DOMAIN s : s[i] # Space}
  IN  IF inked = {} THEN <<>> ELSE SubSeq(s, First(inked), Last(inked))

---------------------------------------------------------------------------
(* Writing and reading.                                                    *)

join_encoding_Unnamed(media, type) ==
  media \o <<kEncodingSeparator>> \o SchemaParam \o <<"=">> \o Wanted
    \o <<kEncodingSeparator>> \o type

join_encoding(media, type) ==
  media \o <<kEncodingSeparator>> \o type
    \o <<kEncodingSeparator>> \o SchemaParam \o <<"=">> \o Wanted

\* A parameter's key and value; one without "=" has neither.
Key(param) == Trim(SubSeq(param, 1, First(Places(param, "=")) - 1))
Value(param) == Trim(SubSeq(param, First(Places(param, "=")) + 1, Len(param)))

Chosen_TheLast(pieces, declared) == pieces[Last(declared)]

\* Of several tcn_schema parameters, the one that counts.
Chosen(pieces, declared) == pieces[First(declared)]

\* parse_encoding: every parameter but tcn_schema is passed over.
parse_encoding(s) ==
  LET pieces == Pieces(s, kEncodingSeparator)
      declared == {k \in 3 .. Len(pieces) : /\ Places(pieces[k], "=") # {}
                                            /\ Key(pieces[k]) = SchemaParam}
  IN  [media |-> pieces[1],
       type |-> IF Len(pieces) = 1 THEN <<>> ELSE Trim(pieces[2]),
       versioned |-> declared # {},
       version |-> IF declared = {} THEN <<>>
                                    ELSE Value(Chosen(pieces, declared))]

schema_version_matches_ByPrefix(v) ==
  Len(v) >= Len(Wanted) /\ SubSeq(v, 1, Len(Wanted)) = Wanted

\* Where the digits that start at i end.
DigitsEnd(v, i) == First({j \in i .. Len(v) + 1 : j > Len(v) \/ v[j] \notin Digit})

\* schema_version_matches: the loop over the parts, at a place, with some
\* parts read, and where the second of them ended.
schema_version_matches(v) ==
  LET Loop == (1 .. Len(v) + 1) \X (0 .. 2) \X (0 .. Len(v) + 1)
      read[at \in Loop] ==
        LET parts == at[2]
            end == DigitsEnd(v, at[1])
            minor == IF parts = 1 THEN end ELSE at[3]
        IN  /\ end # at[1]
            /\ IF end > Len(v)
               THEN parts >= 1 /\ SubSeq(v, 1, minor - 1) = Wanted
               ELSE v[end] = "." /\ parts < 2 /\ read[<<end + 1, parts + 1, minor>>]
  IN  read[<<1, 0, 0>>]

\* A token in lower case; the others are their own.
ascii_lower(token) == CASE token = "CDR" -> "cdr" [] token = "JSON" -> "json"
                        [] OTHER -> token

contains_ascii_ci(haystack, needle) ==
  \E i \in DOMAIN haystack : ascii_lower(haystack[i]) = needle

MediaKnown(media) == contains_ascii_ci(media, "cdr") \/ contains_ascii_ci(media, "json")

check_declared_type_AnyCdr(s, type) ==
  LET parsed == parse_encoding(s)
  IN  IF ~MediaKnown(parsed.media) THEN "UnknownEncoding"
      ELSE IF parsed.type \notin Type \cup {type} THEN "WrongDeclaredType"
      ELSE "Ok"

check_declared_type(s, type) ==
  LET parsed == parse_encoding(s)
  IN  IF ~MediaKnown(parsed.media) THEN "UnknownEncoding"
      ELSE IF parsed.type = <<>> THEN "MissingDeclaredType"
      ELSE IF parsed.type # type THEN "WrongDeclaredType"
      ELSE IF parsed.versioned /\ ~schema_version_matches(parsed.version)
           THEN "SchemaVersionMismatch"
      ELSE "Ok"

---------------------------------------------------------------------------

Init == family \in DOMAIN Family /\ text = Family[family].start

Extend(x) ==
  /\ Len(text) + Len(x) <= Family[family].length
  /\ text' = text \o x
  /\ UNCHANGED family

Next == \E x \in Family[family].lexeme : Extend(x)

Spec == Init /\ [][Next]_<<family, text>>

---------------------------------------------------------------------------
(* What readers and writers may rely on.                                   *)

(* A payload is taken for one type at most, and only if that type stands   *)
(* between the first separator and the second: CDR bytes never decode as   *)
(* a type their publisher did not name, and the two reads whose replies    *)
(* begin alike are told apart (check_declared_type).                       *)
NoPayloadOfAnotherType ==
  \A type \in Type : check_declared_type(text, type) = "Ok" =>
    /\ Trim(Pieces(text, kEncodingSeparator)[2]) = type
    /\ \A other \in Type \ {type} :
         check_declared_type(text, other) = "WrongDeclaredType"

(* Parameters of later releases change no verdict, and neither does a      *)
(* second tcn_schema: whatever is appended on the way, the version that    *)
(* counts is the publisher's (the comment on parse_encoding).              *)
LaterParametersAreIgnored ==
  Places(text, kEncodingSeparator) # {} =>
    \A type \in Type :
      LET verdict == check_declared_type(text, type)
          With(param) ==
            check_declared_type(text \o <<kEncodingSeparator>> \o param, type)
      IN  /\ With(<<"quality">>) = verdict
          /\ With(<<"quality", "=", "9">>) = verdict
          /\ parse_encoding(text).versioned =>
               /\ With(SchemaParam \o <<"=", "9">>) = verdict
               /\ With(SchemaParam \o <<"=">> \o Wanted) = verdict

(* What this library writes it accepts, and a reader of another type does  *)
(* not, whatever the media type around a known one and however it is cased *)
(* (join_encoding against check_declared_type).                            *)
OwnAnnotationsAreAccepted ==
  /\ Places(text, kEncodingSeparator) = {}
  /\ \E i \in DOMAIN text : text[i] \in {"cdr", "CDR", "json", "JSON"}
  =>
    \A type, other \in Type :
      check_declared_type(join_encoding(text, type), other) =
        IF other = type THEN "Ok" ELSE "WrongDeclaredType"

(* A version matches when it is two or three numbers, the first two of     *)
(* them written as in kWireSchemaVersion: 0.9.12 does, and neither 0.90    *)
(* nor 0.9.1.2 nor "0.9." do (schema_version_matches).                     *)
VersionsMatchByRelease ==
  schema_version_matches(text) <=>
    LET parts == Pieces(text, ".")
    IN  /\ Len(parts) \in {2, 3}
        /\ \A k \in DOMAIN parts :
             parts[k] # <<>> /\ \A i \in DOMAIN parts[k] : parts[k][i] \in Digit
        /\ parts[1] \o <<".">> \o parts[2] = Wanted

==========================================================================
