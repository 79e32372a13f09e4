----------------------------- MODULE LsGrammar -----------------------------
(* The language of .ls documents: what a line can be, as the lexer and the   *)
(* parser take it and as docs/spec/minimal-ls-grammar.md writes it, which is *)
(* not the same.  Constant-level.                                            *)
(*                                                                           *)
(* A document is a sequence of units: a character, up to what the lexer tells*)
(* apart, or one of the three keywords.                                      *)
EXTENDS Integers, Sequences

Keywords    == {"goal", "capability", "check"}
\* "n" may follow a backslash, other letters may not.
Letters     == Keywords \cup {"a", "n"}
WordParts   == Letters \cup {"1"}
LineBreaks  == {"lf", "cr"}
Escapable   == {"n", "quote", "backslash"}
Units       == WordParts \cup LineBreaks \cup {"blank", "quote", "backslash", "other"}

\* The pieces of a line between two cuts.
Piece(l, i, j) == SubSeq(l, i + 1, j)

IsBlank(s)      == \A i \in DOMAIN s : s[i] = "blank"
\* identifier.
IsIdentifier(s) ==
  /\ s # <<>> /\ s[1] \in Letters
  /\ \A i \in DOMAIN s : s[i] \in WordParts
\* What the lexer makes an Identifier token of: not of a keyword.
IsName(s) ==
  /\ s # <<>> /\ s[1] \in Letters
  /\ \A i \in DOMAIN s : s[i] \in WordParts
  /\ Len(s) = 1 => s[1] \notin Keywords

\* string-literal.  A backslash is escaped by the one before it, so that those
\* that escape are told by their number.
Escapes(s) ==
  LET esc[i \in 0..Len(s)] ==
        i # 0 /\ s[i] = "backslash" /\ ~esc[i - 1]
  IN esc
IsString(s) ==
  LET n == Len(s)
      esc == Escapes(s)
  IN /\ n >= 2 /\ s[1] = "quote" /\ s[n] = "quote" /\ ~esc[n - 1]
     /\ \A i \in 2..n - 1 :
          /\ s[i] \notin LineBreaks
          /\ s[i] = "quote" => esc[i - 1]
          /\ esc[i - 1] => s[i] \in Escapable

\* A goal declaration as the parser takes it, which sees the tokens and not what is
\* between them.
AcceptsGoal(l) ==
  \E i, j, k \in 0..Len(l) :
    /\ i < j /\ j <= k /\ l[i + 1] = "goal"
    /\ IsBlank(Piece(l, 0, i)) /\ IsBlank(Piece(l, i + 1, j))
    /\ IsString(Piece(l, j, k)) /\ IsBlank(Piece(l, k, Len(l)))
\* goal-declaration = opt-wsp, "goal", wsp, string-literal, opt-wsp.
IsGoal(l) ==
  \E i, j, k \in 0..Len(l) :
    /\ i + 1 < j /\ j <= k /\ l[i + 1] = "goal"
    /\ IsBlank(Piece(l, 0, i)) /\ IsBlank(Piece(l, i + 1, j))
    /\ IsString(Piece(l, j, k)) /\ IsBlank(Piece(l, k, Len(l)))

\* A capability or check declaration as the parser takes it: it ends the keyword
\* where a blank does, and asks for none behind the name.
AcceptsNamed(keyword, l) ==
  \E i \in 0..Len(l) - 1 :
    /\ l[i + 1] = keyword /\ IsBlank(Piece(l, 0, i))
    /\ \E j \in i + 2..Len(l) : \E k \in j + 1..Len(l) :
         /\ IsBlank(Piece(l, i + 1, j)) /\ IsName(Piece(l, j, k))
         /\ \E m \in k..Len(l) : \E n \in m..Len(l) :
              /\ IsBlank(Piece(l, k, m))
              /\ IsString(Piece(l, m, n)) /\ IsBlank(Piece(l, n, Len(l)))
\* opt-wsp, "capability" or "check", wsp, identifier, wsp, string-literal, opt-wsp.
IsNamed(keyword, l) ==
  \E i \in 0..Len(l) - 1 :
    /\ l[i + 1] = keyword /\ IsBlank(Piece(l, 0, i))
    /\ \E j \in i + 2..Len(l) : \E k \in j + 1..Len(l) :
         /\ IsBlank(Piece(l, i + 1, j)) /\ IsIdentifier(Piece(l, j, k))
         /\ \E m \in k + 1..Len(l) : \E n \in m..Len(l) :
              /\ IsBlank(Piece(l, k, m))
              /\ IsString(Piece(l, m, n)) /\ IsBlank(Piece(l, n, Len(l)))

\* What a line is; whatever is none of the declarations and not blank is wrong.
AcceptedKind(l) ==
  IF IsBlank(l) THEN "blank"
  ELSE IF AcceptsGoal(l) THEN "goal"
  ELSE IF AcceptsNamed("capability", l) THEN "capability"
  ELSE IF AcceptsNamed("check", l) THEN "check" ELSE "wrong"
LineKind(l) ==
  IF IsBlank(l) THEN "blank"
  ELSE IF IsGoal(l) THEN "goal"
  ELSE IF IsNamed("capability", l) THEN "capability"
  ELSE IF IsNamed("check", l) THEN "check" ELSE "wrong"

\* document, as the kinds of its lines: a goal, capabilities, checks.
IsDocument(kinds) ==
  LET said == {i \in DOMAIN kinds : kinds[i] # "blank"}
      goals == {i \in said : kinds[i] = "goal"}
      capabilities == {i \in said : kinds[i] = "capability"}
      checks == {i \in said : kinds[i] = "check"}
  IN /\ said = goals \cup capabilities \cup checks
     /\ \E g \in goals : goals = {g} /\ \A i \in said : g <= i
     /\ capabilities # {} /\ checks # {}
     /\ \A c \in capabilities, k \in checks : c < k
=============================================================================
