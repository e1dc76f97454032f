--------------------------- MODULE MCAnnotation ---------------------------
(* An instance of Annotation: whole annotations around the type names T    *)
(* and U, media types, and versions.                                       *)
EXTENDS Annotation

TypeNames == {<<"T">>, <<"U">>}

Word == {<<";">>, <<"=">>, <<" ">>, <<"tcn_schema">>,
         <<"0", ".", "9">>, <<"0", ".">>}

Families ==
  [typed   |-> [start |-> <<"cdr", ";", "T">>, lexeme |-> Word, length |-> 9],
   blank   |-> [start |-> <<"cdr", ";", " ">>, lexeme |-> Word \cup {<<"U">>},
                length |-> 7],
   foreign |-> [start |-> <<"text", ";", "T">>, lexeme |-> Word, length |-> 7],
   media   |-> [start |-> <<>>, length |-> 4,
                lexeme |-> {<<"cdr">>, <<"CDR">>, <<"text">>, <<" ">>, <<"json">>}],
   version |-> [start |-> <<>>, length |-> 7,
                lexeme |-> {<<"0">>, <<"9">>, <<".">>, <<"x">>}]]
==========================================================================
