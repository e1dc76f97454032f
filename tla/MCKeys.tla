------------------------------ MODULE MCKeys ------------------------------
(* An instance of Keys: short keys of any shape, the epochs of one engine  *)
(* around the largest one, and chunks that clients and engines use, behind *)
(* a client id and behind an engine id that is one too.                    *)
EXTENDS Keys

Engines == {<<"e">>, <<"e", "one">>, <<"sis">>, <<"cfg">>}

Alive == <<"sqe", "/", "e", "/", "alive", "/">>
Tokens(words) == {<<w>> : w \in words}
Chunks(words) == {<<"/", w>> : w \in words}

Marker == {<<"/", "_mtirt_", "__sis_marker__", "one">>,
           <<"/", "_mtirt_", "__sis_marker__", "one", "zero">>}

Families ==
  [shape  |-> [start |-> <<"sqe">>, length |-> 8,
               piece |-> Tokens({"/", "e", "alive", "one"})],
   epoch  |-> [start |-> Alive, length |-> 10,
               piece |-> Tokens({"zero", "one", "two", "five", "six", "nine", "/"})],
   client |-> [start |-> <<"a">>, length |-> 11,
               piece |-> Chunks({"sis", "alive", "cfg", "marker", "desc", "relation",
                                 "update"}) \cup Marker],
   engine |-> [start |-> <<"sqe">>, length |-> 9,
               piece |-> Chunks({"e", "sis", "cfg", "alive", "rel", "status", "targets",
                                 "changed", "one"})]]
===========================================================================
