---------------------------- MODULE MCLsDocument ----------------------------
(* Values for the constants of LsDocument.                                   *)
EXTENDS LsDocument

B == "blank"
Q == "quote"
S == "backslash"
Str == <<Q, "a", Q>>

\* Whole declarations, and lines that are wrong in one place.
Goals        == {<<"goal", B>> \o Str, <<"goal">> \o Str \o <<B>>}
Capabilities == {<<"capability", B, "a", "1", B>> \o Str,
                 <<"capability", B, "goal", B>> \o Str}
Checks       == {<<B, "check", B, "goal", "a">> \o Str}
NoStart      == {<<"a", B>> \o Str, Str \o <<"check">>}
Short        == {<<"goal", B, "a">>, <<"capability", B>> \o Str, <<"check", B, "a">>, <<"check">>}
TooLong      == {<<"capability", B, "a", B>> \o Str \o <<"check">>}
OfEachKind   == {<<>>, <<"goal", B>> \o Str, <<"capability", B, "a", "1", B>> \o Str,
                 <<B, "check", B, "goal", "a">> \o Str, <<"a", B>> \o Str,
                 <<"capability", B>> \o Str, <<"check">>}
ParserLines  ==
  OfEachKind \cup Goals \cup Capabilities \cup Checks \cup NoStart \cup Short \cup TooLong

\* Every sequence of units that is short, and lines with strings that end badly.
LexerLines   ==
  UNION {[1..n -> Units \ {"lf", "capability", "check"}] : n \in 0..2}
    \cup {<<"a">> \o Str, <<Q, S, Q>>, <<Q, S, Q, Q>>, <<Q, S, S, Q>>, <<Q, S, "n", Q>>, <<Q, S, "a", Q>>,
          <<Q, "a", S>>, <<Q, "a", "cr", Q>>}

ByReturn(l) == l # <<>> /\ l[Len(l)] = "cr"

SomeDocuments ==
  UNION {[1..n -> ParserLines] : n \in 1..3} \cup [1..4 -> OfEachKind]
    \cup [1..1 -> LexerLines]
    \cup {d \in [1..2 -> LexerLines] : ~ByReturn(d[1])}
=============================================================================
