------------------------------- MODULE Keys -------------------------------
(***************************************************************************)
(* The keys clients and the engine speak on: those built on a client id    *)
(* (tcn/sqe/client_id.h, tracker.h), those built on an engine id           *)
(* (topics.h), and the engine's liveliness key as a client reads it back.  *)
(*                                                                         *)
(* Keys are sequences of tokens: "/", decimal digits, and words, of which  *)
(* only equality matters.  Next appends a piece, one or more tokens, so    *)
(* that the reachable states are the keys of the families Family names:    *)
(* how a key starts, the pieces it goes on with, how long it may get.      *)
(***************************************************************************)
EXTENDS Integers, Sequences

CONSTANTS
  Family,      \* a function from names to families of keys
  EngineId,    \* engine ids, token sequences of one chunk
  Number,      \* epochs and marker ids that are composed
  MaxEpoch     \* stands for the largest uint64

DigitOf == [zero |-> 0, one |-> 1, two |-> 2, three |-> 3, four |-> 4,
            five |-> 5, six |-> 6, seven |-> 7, eight |-> 8, nine |-> 9]
Digit == DOMAIN DigitOf

ASSUME ConstantsOK ==
  /\ \A f \in DOMAIN Family :
       /\ Family[f].start \in Seq(STRING)
       /\ Family[f].piece \subseteq Seq(STRING) \ {<<>>}
       /\ Family[f].length \in Nat
  /\ EngineId \subseteq Seq(STRING \ {"/"}) \ {<<>>}
  /\ MaxEpoch \in Nat /\ Number \subseteq 0 .. MaxEpoch

VARIABLES family, key

Nothing == -1    \* std::nullopt

First(S) == CHOOSE i \in S : \A j \in S : i <= j

\* The chunks named, joined by slashes.
Path(a, b) == <<a, "/", b>>
Path3(a, b, c) == Path(a, b) \o <<"/", c>>

Under(prefix, tail) == prefix \o <<"/">> \o tail

\* std::to_string.
Decimal[n \in Nat] ==
  LET last == <<CHOOSE d \in Digit : DigitOf[d] = n % 10>>
  IN  IF n < 10 THEN last ELSE Decimal[n \div 10] \o last

---------------------------------------------------------------------------
(* Keys built on a client id: one suffix for each request and the token,   *)
(* the device families, and the node a marker becomes.                     *)

Suffix ==
  [join |-> Path("sis", "join"),
   leave |-> Path("sis", "leave"),
   alive |-> Path("sis", "alive"),
   node_update |-> Path3("sis", "component", "update"),
   node_remove |-> Path3("sis", "component", "remove"),
   edge_update |-> Path3("sis", "relation", "update"),
   edge_remove |-> Path3("sis", "relation", "remove"),
   stream_start |-> Path3("sis", "stream", "start"),
   stream_stop |-> Path3("sis", "stream", "stop"),
   graph_query |-> Path3("sis", "graph", "query"),
   pattern_query |-> Path3("sis", "pattern", "query"),
   target_query |-> Path3("sis", "target", "query"),
   target_update |-> Path3("sis", "target", "update")]

client_key(client, what) == Under(client, Suffix[what])

\* check_identifier, as far as tokens tell: every other one is of its alphabet.
check_identifier(s) == s # <<>> /\ \A i \in DOMAIN s : s[i] \notin {"/", "*"}

Refused == <<>>    \* Result::fail

device_key_Unchecked(client, group, device) == Under(Under(client, group), device)

device_key(client, group, device) ==
  IF check_identifier(device) THEN Under(Under(client, group), device) ELSE Refused

descriptor_key(client, device) == device_key(client, Path("cfg", "desc"), device)

tracker_stream_key(client, device) == device_key(client, Path("str", "trk"), device)

marker_announce_key(client, device, marker) ==
  LET head == device_key(client, Path("cfg", "marker"), device)
  IN  IF head = Refused \/ ~check_identifier(marker) THEN Refused ELSE Under(head, marker)

marker_prefix ==
  [None |-> "_mtnone_", ArucoMarker |-> "_mtarucom_", ArucoBoard |-> "_mtarucob_",
   ArucoFractal |-> "_mtarucof_", IrTarget |-> "_mtirt_", HmdPose |-> "_hmdvp_",
   AprilTag |-> "_mtapril_"]

marker_node_name(kind, id) == <<marker_prefix[kind], "__sis_marker__">> \o Decimal[id]

---------------------------------------------------------------------------
(* Keys built on an engine id.                                             *)

engine_key(engine, tail) == Under(Under(<<"sqe">>, engine), tail)

engine_relation_topic(engine, handle) == engine_key(engine, Under(<<"rel">>, handle))

status_topic_for(topic) == Under(topic, <<"status">>)

engine_relation_status_topic(engine, handle) ==
  status_topic_for(engine_relation_topic(engine, handle))

engine_alive_key(engine, epoch) == engine_key(engine, Under(<<"alive">>, Decimal[epoch]))

engine_alive_pattern(engine) == engine_key(engine, Path("alive", "*"))

engine_targets_changed_topic(engine) == engine_key(engine, Path("targets", "changed"))

\* A pattern that ends in *, which stands for one chunk.
Matches(s, pattern) ==
  LET n == Len(pattern) - 1
  IN  /\ Len(s) > n /\ SubSeq(s, 1, n) = SubSeq(pattern, 1, n)
      /\ \A i \in n + 1 .. Len(s) : s[i] # "/"

---------------------------------------------------------------------------
(* parse_engine_alive_key.                                                 *)

Overflows_ByTen(epoch, digit) == digit \in 0 .. 9 /\ epoch > MaxEpoch \div 10

\* The guard in front of epoch * 10 + digit.
Overflows(epoch, digit) == epoch > (MaxEpoch - digit) \div 10

\* One turn of the loop: the epoch so far, unsigned, or its early return.
Advance(epoch, c) ==
  IF epoch = Nothing \/ c \notin Digit THEN Nothing
  ELSE IF Overflows(epoch, DigitOf[c]) THEN Nothing
  ELSE (epoch * 10 + DigitOf[c]) % (MaxEpoch + 1)

\* The number all of s writes.
ReadEpoch(s) ==
  LET read[i \in 0 .. Len(s)] == IF i = 0 THEN 0 ELSE Advance(read[i - 1], s[i])
  IN  read[Len(s)]

StartsWith(s, word) == Len(s) >= 2 /\ s[1] = word /\ s[2] = "/"
Behind(s) == SubSeq(s, 3, Len(s))    \* the word and the slash removed

OtherEngine_ByPrefix(wanted, chunk) ==
  wanted # SubSeq(chunk, 1, IF Len(wanted) < Len(chunk) THEN Len(wanted) ELSE Len(chunk))

\* The chunk names another engine than the caller's, who may name none.
OtherEngine(wanted, chunk) == wanted # <<>> /\ chunk # wanted

parse_engine_alive_key(s, wanted) ==
  LET tail == Behind(s)
      slashes == {i \in DOMAIN tail : tail[i] = "/"}
      slash == First(slashes)
      rest == SubSeq(tail, slash + 1, Len(tail))
  IN  IF ~StartsWith(s, "sqe") \/ slashes = {} \/ 1 \in slashes THEN Nothing
      ELSE IF OtherEngine(wanted, SubSeq(tail, 1, slash - 1)) THEN Nothing
      ELSE IF ~StartsWith(rest, "alive") \/ Behind(rest) = <<>> THEN Nothing
      ELSE ReadEpoch(Behind(rest))

---------------------------------------------------------------------------

Init == family \in DOMAIN Family /\ key = Family[family].start

Extend(piece) ==
  /\ Len(key) + Len(piece) <= Family[family].length
  /\ key' = key \o piece
  /\ UNCHANGED family

Next == \E piece \in Family[family].piece : Extend(piece)

Spec == Init /\ [][Next]_<<family, key>>

---------------------------------------------------------------------------
(* What those who subscribe to a key, or read one, rely on.                *)

\* The number the digits of s write, whatever its size.
Value(s) == LET value[i \in 0 .. Len(s)] ==
                  IF i = 0 THEN 0 ELSE value[i - 1] * 10 + DigitOf[s[i]]
            IN  value[Len(s)]

(* A key is read as an epoch exactly when it has the engine's four chunks, *)
(* the last of them a number a uint64 holds; then the epoch is that        *)
(* number: none wraps around to an older one, and the largest is not       *)
(* refused (topics.h parse_engine_alive_key).                              *)
EpochsAreExact ==
  \A wanted \in EngineId \cup {<<>>} :
    LET Splits(a) ==
          /\ key = engine_key(SubSeq(key, 3, a), Under(<<"alive">>, SubSeq(key, a + 4, Len(key))))
          /\ \A i \in 3 .. a : key[i] # "/"
          /\ \A i \in a + 4 .. Len(key) : key[i] \in Digit
          /\ wanted \in {<<>>, SubSeq(key, 3, a)}
        written == {Value(SubSeq(key, a + 4, Len(key))) :
                      a \in {b \in 3 .. Len(key) - 4 : Splits(b)}}
    IN  parse_engine_alive_key(key, wanted) =
          IF written \cap 0 .. MaxEpoch = {} THEN Nothing ELSE First(written)

(* A key that is read as an epoch of one engine is that engine's token and *)
(* no other's, is among those the engine's pattern subscribes to, and is   *)
(* what composing it again gives, up to leading zeros no engine writes: a  *)
(* client takes no other engine's token for a restart of its own, and      *)
(* misses none (topics.h parse_engine_alive_key, engine_alive_pattern).    *)
TokensTellEnginesApart ==
  \A engine \in EngineId :
    LET epoch == parse_engine_alive_key(key, engine)
    IN  epoch # Nothing =>
          /\ \A other \in EngineId :
               /\ Matches(key, engine_alive_pattern(other)) <=> other = engine
               /\ other # engine => parse_engine_alive_key(key, other) = Nothing
          /\ key = engine_alive_key(engine, epoch) \/ key[Len(engine) + 6] = "zero"

\* The places of the slashes in key, what stands between two of them or its
\* ends, and the single chunks of that.
Slashes == {i \in DOMAIN key : key[i] = "/"}
Stretch ==
  LET cuts == Slashes \cup {0, Len(key) + 1}
  IN  {SubSeq(key, p[1] + 1, p[2] - 1) : p \in {q \in cuts \X cuts : q[1] < q[2]}}
ChunkOfKey == {s \in Stretch : \A i \in DOMAIN s : s[i] # "/"}

Owner == {SubSeq(key, 1, i - 1) : i \in Slashes}

MarkerName == {marker_node_name(kind, id) : kind \in DOMAIN marker_prefix, id \in Number}

\* All that key may say: who composes it, and out of what.
Reading ==
  LET Says(family_, of, composed) == {r \in {<<family_, of>>} : key = composed}
      OnDevice(c, d) ==
        Says("descriptor", <<c, d>>, descriptor_key(c, d))
        \cup Says("poses", <<c, d>>, tracker_stream_key(c, d))
        \cup (UNION {Says("marker", <<c, d, m>>, marker_announce_key(c, d, m)) : m \in Stretch})
      OnClient(c) ==
        (UNION {Says("request", <<c, w>>, client_key(c, w)) : w \in DOMAIN Suffix})
        \cup (UNION {OnDevice(c, d) : d \in Stretch})
      OnHandle(e, h) ==
        Says("stream", <<e, h>>, engine_relation_topic(e, h))
        \cup Says("status", <<e, h>>, engine_relation_status_topic(e, h))
      OnEngine(e) ==
        Says("targets", <<e>>, engine_targets_changed_topic(e))
        \cup (UNION {Says("alive", <<e, n>>, engine_alive_key(e, n)) : n \in Number})
        \cup (UNION {OnHandle(e, h) : h \in ChunkOfKey})
  IN  (UNION {OnClient(c) : c \in Owner}) \cup (UNION {OnEngine(e) : e \in EngineId})

(* A key means one thing: whatever words client ids, handles and engine    *)
(* ids contain, however many chunks a client id has, and whatever text is  *)
(* given for a device or a marker, no request, announcement, descriptor,   *)
(* stream, status or token arrives as another's or as something else, and  *)
(* an announcement is taken apart into the client, device and marker it    *)
(* was made of: one with a slash in a name is refused, before it reads as  *)
(* another.  The one exception needs a marker that marker_node_name did    *)
(* not compose: the token of a client that ends in cfg/marker reads as the *)
(* announcement, by device "sis", of a marker "alive" (client_id.h,        *)
(* tracker.h, topics.h).                                                   *)
OneMeaningPerKey ==
  \A a, b \in Reading :
    a = b \/ \E r \in {a, b} : r[1] = "marker" /\ r[2][3] \notin MarkerName
                               /\ {a[1], b[1]} = {"marker", "request"}

==========================================================================
