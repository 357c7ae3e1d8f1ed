--------------------------- MODULE MCAnswerStream ---------------------------
(* Markers of two kinds with two digits.  A text is a marker or the        *)
(* beginning of one, with a piece before it and a piece behind it.         *)
EXTENDS AnswerStream

MCKinds == {<<"p", "_">>, <<"s", "_">>}

PlaceRef  == <<"[", "[", "p", "_", "0", "0", "]", "]">>
SourceRef == <<"[", "[", "s", "_", "0", "0", "]", "]">>
Begun     == <<"[", "[", "s", "_", "0">>

MCTexts == {a \o b \o c : a \in {<<>>, <<"x">>, <<" ">>, <<"[">>, Begun},
                          b \in {PlaceRef, SourceRef, Begun},
                          c \in {<<>>, <<" ">>, <<"0", "]">>, PlaceRef}}
=============================================================================
