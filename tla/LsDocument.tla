----------------------------- MODULE LsDocument -----------------------------
(* parseLsDocument: the lexer, one action per iteration of its loops, then   *)
(* the parser, one action per iteration of its loop.                         *)
EXTENDS LsGrammar, FiniteSets, SequencesExt

CONSTANTS
  Documents,   \* documents, as their lines without the breaks
  Null

\* A return that a line feed follows is part of the break.
ASSUME LineAssumption ==
  \A d \in Documents :
    /\ d # <<>> /\ d \in Seq(Seq(Units \ {"lf"}))
    /\ \A i \in 1..Len(d) - 1 : d[i] # <<>> => d[i][Len(d[i])] # "cr"

\* A syntax tree, as the tokens that its declarations start at.
Asts == [goal : Nat, capabilities : SUBSET Nat, checks : SUBSET Nat]
ASSUME NullAssumption == Null \notin Units \cup Nat \cup Asts

LineForms == UNION {{d[i] : i \in DOMAIN d} : d \in Documents}

VARIABLES
  lines, source,   \* the document: its lines, and its units
  phase,           \* "lex", "string", "parse" or "done"
  at,              \* lexer: the next unit
  opened,          \* lexer: where the string it is in starts
  tokens,
  section,         \* parser: "goal", "capability" or "check"
  index,           \* parser: the next token
  goal, capabilities, checks,  \* parser: the tokens that declarations start at
  saw,             \* parser: the keywords it has come to
  diagnostics,
  ast

input  == <<lines, source>>
lexer  == <<at, opened, tokens>>
parsed == <<section, index, goal, capabilities, checks, saw>>
vars   == <<input, phase, lexer, parsed, diagnostics, ast>>

TokenKinds ==
  {"GoalKeyword", "CapabilityKeyword", "CheckKeyword", "Identifier",
   "StringLiteral", "Newline", "EOF"}
Tokens == [kind : TokenKinds, from : Nat, to : Nat]
Codes  ==
  {"LEX_UNEXPECTED_CHARACTER", "LEX_UNTERMINATED_STRING", "LEX_INVALID_ESCAPE",
   "PARSE_EXPECTED_DECLARATION", "PARSE_EXPECTED_TOKEN",
   "PARSE_UNEXPECTED_TOKEN", "PARSE_MISSING_REQUIRED_DECLARATION"}
\* A message is what it is about; a span, where it starts and ends.
Diagnostics == [code : Codes, about : TokenKinds, from : Nat, to : Nat]
Diagnostic(code, about, from, to) ==
  [code |-> code, about |-> about, from |-> from, to |-> to]

Breaks == {<<"lf">>, <<"cr", "lf">>}

-----------------------------------------------------------------------------
Init ==
  /\ lines \in Documents
  /\ \E break \in [2..Len(lines) -> Breaks] :
       source = FlattenSeq([i \in DOMAIN lines |->
                  IF i = 1 THEN lines[i] ELSE break[i] \o lines[i]])
  /\ phase = "lex" /\ at = 1 /\ opened = Null /\ tokens = <<>>
  /\ section = "goal" /\ index = 1
  /\ goal = Null /\ capabilities = {} /\ checks = {} /\ saw = {}
  /\ diagnostics = {} /\ ast = Null

-----------------------------------------------------------------------------
(* The lexer.                                                                *)
Ended    == at > Len(source)
Unit     == IF Ended THEN Null ELSE source[at]
UnitAt(i) == IF i > Len(source) THEN Null ELSE source[i]

Token(kind, from, to) == [kind |-> kind, from |-> from, to |-> to]

Report(code, from, to) ==
  diagnostics' = diagnostics \cup {Diagnostic(code, "EOF", from, to)}

SkipBlank ==
  /\ phase = "lex" /\ Unit = "blank"
  /\ at' = at + 1
  /\ UNCHANGED <<input, phase, opened, tokens, parsed, diagnostics, ast>>

BreakAt(i) ==
  IF UnitAt(i) = "lf" THEN 1
  ELSE IF UnitAt(i) = "cr" /\ UnitAt(i + 1) = "lf" THEN 2 ELSE 0

LexNewline ==
  /\ phase = "lex" /\ BreakAt(at) > 0
  /\ at' = at + BreakAt(at)
  /\ tokens' = Append(tokens, Token("Newline", at, at'))
  /\ UNCHANGED <<input, phase, opened, parsed, diagnostics, ast>>

OpenString ==
  /\ phase = "lex" /\ Unit = "quote"
  /\ phase' = "string" /\ opened' = at /\ at' = at + 1
  /\ UNCHANGED <<input, tokens, parsed, diagnostics, ast>>

CloseString ==
  /\ phase = "string" /\ Unit = "quote"
  /\ phase' = "lex" /\ opened' = Null /\ at' = at + 1
  /\ tokens' = Append(tokens, Token("StringLiteral", opened, at'))
  /\ UNCHANGED <<input, parsed, diagnostics, ast>>

\* The line or the document ends in the string, after a backslash or not.
BrokenOff(i) ==
  \/ UnitAt(i) \in LineBreaks \cup {Null}
  \/ UnitAt(i) = "backslash" /\ UnitAt(i + 1) \in LineBreaks \cup {Null}

\* Mutant: the string is tried again.
BackToItsStart == opened
\* The break itself is left to the lexer's loop.
BehindPiece    == IF Unit = "backslash" THEN at + 1 ELSE at

BreakString ==
  /\ phase = "string" /\ BrokenOff(at)
  /\ phase' = "lex" /\ opened' = Null
  /\ at' = BehindPiece
  /\ Report("LEX_UNTERMINATED_STRING", opened, at')
  /\ UNCHANGED <<input, tokens, parsed, ast>>

Escape ==
  /\ phase = "string" /\ Unit = "backslash" /\ ~BrokenOff(at)
  /\ at' = at + 2
  /\ IF UnitAt(at + 1) \in Escapable THEN UNCHANGED diagnostics
     ELSE Report("LEX_INVALID_ESCAPE", at, at')
  /\ UNCHANGED <<input, phase, opened, tokens, parsed, ast>>

StringChar ==
  /\ phase = "string" /\ Unit \notin {"quote", "backslash"} /\ ~BrokenOff(at)
  /\ at' = at + 1
  /\ UNCHANGED <<input, phase, opened, tokens, parsed, diagnostics, ast>>

KeywordKinds ==
  [goal |-> "GoalKeyword", capability |-> "CapabilityKeyword",
   check |-> "CheckKeyword"]

WordEnd ==
  CHOOSE j \in at + 1..Len(source) + 1 :
    /\ UnitAt(j) \notin WordParts
    /\ \A k \in at..j - 1 : UnitAt(k) \in WordParts

\* A keyword with more letters or digits behind it is an identifier.
LexWord ==
  /\ phase = "lex" /\ Unit \in Letters
  /\ at' = WordEnd
  /\ tokens' = Append(tokens,
       Token(IF Unit \in Keywords /\ at' = at + 1 THEN KeywordKinds[Unit]
             ELSE "Identifier", at, at'))
  /\ UNCHANGED <<input, phase, opened, parsed, diagnostics, ast>>

\* Mutant: a character that can start nothing is skipped.
CharacterIgnored ==
  /\ phase = "lex" /\ ~Ended
  /\ Unit \notin Letters \cup {"blank", "quote"} /\ BreakAt(at) = 0
  /\ at' = at + 1
  /\ UNCHANGED <<input, phase, opened, tokens, parsed, diagnostics, ast>>
UnexpectedCharacter ==
  /\ phase = "lex" /\ ~Ended
  /\ Unit \notin Letters \cup {"blank", "quote"} /\ BreakAt(at) = 0
  /\ at' = at + 1
  /\ Report("LEX_UNEXPECTED_CHARACTER", at, at')
  /\ UNCHANGED <<input, phase, opened, tokens, parsed, ast>>

\* A document with lexical errors is not parsed.
EndOfFile ==
  /\ phase = "lex" /\ Ended
  /\ tokens' = Append(tokens, Token("EOF", at, at))
  /\ phase' = IF diagnostics = {} THEN "parse" ELSE "done"
  /\ UNCHANGED <<input, at, opened, parsed, diagnostics, ast>>

-----------------------------------------------------------------------------
(* The parser.                                                               *)
Kind(i)  == tokens[i].kind
LineEnds == {"Newline", "EOF"}

PastNewlines(i) ==
  CHOOSE j \in i..Len(tokens) :
    Kind(j) # "Newline" /\ \A k \in i..j - 1 : Kind(k) = "Newline"
LineBoundary(i) ==
  CHOOSE j \in i..Len(tokens) :
    Kind(j) \in LineEnds /\ \A k \in i..j - 1 : Kind(k) \notin LineEnds

Current == PastNewlines(index)

\* skipInvalidDeclarationLine.  Mutant: it takes the end of the file for a break.
PastBoundary(i) == LineBoundary(i) + 1
PastLine(i) ==
  IF Kind(LineBoundary(i)) = "EOF" THEN LineBoundary(i) ELSE LineBoundary(i) + 1

Form ==
  [GoalKeyword       |-> <<"StringLiteral">>,
   CapabilityKeyword |-> <<"Identifier", "StringLiteral">>,
   CheckKeyword      |-> <<"Identifier", "StringLiteral">>]

\* How many parts of its form a declaration has.
Matched(i) ==
  LET form == Form[Kind(i)]
  IN CHOOSE n \in 0..Len(form) :
       /\ \A k \in 1..n : Kind(i + k) = form[k]
       /\ n < Len(form) => Kind(i + n + 1) # form[n + 1]
Declared(i)   == Matched(i) = Len(Form[Kind(i)])
Behind(i)     == i + 1 + Matched(i)

DiagnosticAt(code, about, i) ==
  Diagnostic(code, about, tokens[i].from, tokens[i].to)

\* Mutant: the end of the line is not validated.
DiagnosticsIfShort(i) ==
  IF Declared(i) THEN {}
  ELSE {DiagnosticAt("PARSE_EXPECTED_TOKEN", Kind(i), Behind(i))}
\* expect, validateLineEnding.
DeclarationDiagnostics(i) ==
  IF ~Declared(i)
  THEN {DiagnosticAt("PARSE_EXPECTED_TOKEN", Kind(i), Behind(i))}
  ELSE IF Kind(Behind(i)) \in LineEnds THEN {}
  ELSE {DiagnosticAt("PARSE_UNEXPECTED_TOKEN", Kind(i), Behind(i))}

\* Mutant: what is left of a line is parsed as if it were one.
NotTheRest(i) == Behind(i)
RestOfLine(i) == LineBoundary(Behind(i))

\* A declaration, whole or not, and whatever else is on its line.
Declaration(i) ==
  /\ diagnostics' = diagnostics \cup DeclarationDiagnostics(i)
  /\ index' = RestOfLine(i)

\* A first line that is no goal is left to the parser's loop.
ParseGoal ==
  /\ phase = "parse" /\ section = "goal"
  /\ section' = "capability"
  /\ IF Kind(Current) = "GoalKeyword"
     THEN /\ Declaration(Current)
          /\ goal' = IF Declared(Current) THEN Current ELSE Null
     ELSE /\ diagnostics' = diagnostics \cup
               {DiagnosticAt("PARSE_EXPECTED_DECLARATION", "GoalKeyword", Current)}
          /\ index' = Current
          /\ UNCHANGED goal
  /\ UNCHANGED <<input, phase, lexer, capabilities, checks, saw, ast>>

ParseCapability ==
  /\ phase = "parse" /\ section = "capability"
  /\ Kind(Current) = "CapabilityKeyword"
  /\ Declaration(Current)
  /\ capabilities' = IF Declared(Current) THEN capabilities \cup {Current}
                     ELSE capabilities
  /\ saw' = saw \cup {"CapabilityKeyword"}
  /\ UNCHANGED <<input, phase, lexer, section, goal, checks, ast>>

ParseCheck ==
  /\ phase = "parse" /\ section # "goal"
  /\ Kind(Current) = "CheckKeyword"
  /\ section' = "check"
  /\ Declaration(Current)
  /\ checks' = IF Declared(Current) THEN checks \cup {Current} ELSE checks
  /\ saw' = saw \cup {"CheckKeyword"}
  /\ UNCHANGED <<input, phase, lexer, goal, capabilities, ast>>

\* A second goal, a capability after a check, or no declaration at all.
SkipLine ==
  /\ phase = "parse" /\ section # "goal"
  /\ Kind(Current) \notin {"CheckKeyword", "EOF"}
  /\ Kind(Current) = "CapabilityKeyword" => section = "check"
  /\ diagnostics' = diagnostics \cup
       {DiagnosticAt(IF Kind(Current) \in {"GoalKeyword", "CapabilityKeyword"}
                     THEN "PARSE_UNEXPECTED_TOKEN" ELSE "PARSE_EXPECTED_DECLARATION",
                     Kind(Current), Current)}
  /\ saw' = saw \cup ({Kind(Current)} \cap {"CapabilityKeyword"})
  /\ index' = PastLine(Current)
  /\ UNCHANGED <<input, phase, lexer, section, goal, capabilities, checks, ast>>

MissingGoal ==
  /\ goal = Null
  /\ ~\E d \in diagnostics :
        /\ d.about = "GoalKeyword"
        /\ d.code \in {"PARSE_EXPECTED_DECLARATION", "PARSE_EXPECTED_TOKEN"}

\* Mutant: where no declaration follows the goal, none is missing.
MissingAfterNothing ==
  {k \in {"CapabilityKeyword", "CheckKeyword"} : saw # {} /\ k \notin saw}
\* What was never started is missing.
Missing ==
  (IF MissingGoal THEN {"GoalKeyword"} ELSE {})
    \cup ({"CapabilityKeyword", "CheckKeyword"} \ saw)

\* Where a declaration is missing: behind the one before, or at the first line.
EndOf(i)  == tokens[Behind(i) - 1].to
Anchor(k) ==
  IF k = "CheckKeyword" /\ capabilities # {} THEN EndOf(Max(capabilities))
  ELSE IF k # "GoalKeyword" /\ goal # Null THEN EndOf(goal)
  ELSE tokens[PastNewlines(1)].from

Conclude ==
  /\ phase = "parse" /\ section # "goal" /\ Kind(Current) = "EOF"
  /\ index' = Current
  /\ diagnostics' = diagnostics \cup
       {Diagnostic("PARSE_MISSING_REQUIRED_DECLARATION", k, Anchor(k),
                   IF k = "GoalKeyword" THEN tokens[PastNewlines(1)].to ELSE Anchor(k)) :
          k \in Missing}
  /\ ast' = IF goal = Null \/ capabilities = {} \/ checks = {} \/ diagnostics' # {}
            THEN Null
            ELSE [goal |-> goal, capabilities |-> capabilities, checks |-> checks]
  /\ phase' = "done"
  /\ UNCHANGED <<input, lexer, section, goal, capabilities, checks, saw>>

-----------------------------------------------------------------------------
Lex ==
  \/ SkipBlank
  \/ LexNewline
  \/ OpenString
  \/ CloseString
  \/ BreakString
  \/ Escape
  \/ StringChar
  \/ LexWord
  \/ UnexpectedCharacter
  \/ EndOfFile

Parse ==
  \/ ParseGoal
  \/ ParseCapability
  \/ ParseCheck
  \/ SkipLine
  \/ Conclude

Next == Lex \/ Parse

Spec     == Init /\ [][Next]_vars
FairSpec == Spec /\ WF_vars(Next)

-----------------------------------------------------------------------------
\* The lexer and the parser never step past what they read.
TypeOK ==
  /\ phase \in {"lex", "string", "parse", "done"}
  /\ at \in 1..Len(source) + 1
  /\ opened \in DOMAIN source \cup {Null}
  /\ tokens \in Seq(Tokens)
  /\ section \in {"goal", "capability", "check"}
  /\ phase \in {"parse", "done"} => index \in DOMAIN tokens
  /\ goal \in DOMAIN tokens \cup {Null}
  /\ capabilities \cup checks \subseteq DOMAIN tokens
  /\ diagnostics \subseteq Diagnostics

\* Two automata, with their recovery from errors, against what one line and the order
\* of lines come to: a document has a syntax tree exactly if each line is one that
\* the parser takes, and they are one goal, then capabilities, then checks, with blank
\* lines anywhere.
KindOf == [l \in LineForms |-> AcceptedKind(l)]
AcceptsItsLanguage ==
  phase = "done" => (ast # Null <=> IsDocument([i \in DOMAIN lines |-> KindOf[lines[i]]]))

\* docs/spec/minimal-ls-grammar.md: "This document defines the smallest language
\* surface required for M0".  A document has a syntax tree exactly if it is one of
\* that grammar.
DocumentedKindOf == [l \in LineForms |-> LineKind(l)]
AcceptsDocumentedLanguage ==
  phase = "done" =>
    (ast # Null <=> IsDocument([i \in DOMAIN lines |-> DocumentedKindOf[lines[i]]]))

\* No unit of a document is passed over: after lexing each one is a blank, in one
\* token or under a diagnostic, and tokens come in the order of the document.
Under(i, span) == span.from <= i /\ i < span.to
EveryUnitIsLexed ==
  phase \in {"parse", "done"} =>
    /\ \A i \in DOMAIN source :
         \/ \E t \in DOMAIN tokens : Under(i, tokens[t])
         \/ source[i] = "blank"
         \/ \E d \in diagnostics : Under(i, d)
    /\ \A t \in DOMAIN tokens \ {1} : tokens[t - 1].to <= tokens[t].from

\* compiler/test/parser.test.ts, "avoids cascading capability diagnostics" and "does
\* not discard declarations when goal is missing": a line that is no blank line gives
\* a declaration or a diagnostic, and one diagnostic at most, but for the first
\* line, which can also fail to be a goal.
LineOf(i) == {k \in DOMAIN tokens : LineBoundary(k) = LineBoundary(i)}
Parsed    == {goal} \cup capabilities \cup checks
OneAnswerPerLine ==
  phase = "done" /\ section # "goal" =>
    \A i \in DOMAIN tokens : Kind(i) \notin LineEnds =>
      LET said == {d \in diagnostics :
                     /\ d.code # "PARSE_MISSING_REQUIRED_DECLARATION"
                     /\ ~(d.code = "PARSE_EXPECTED_DECLARATION" /\ d.about = "GoalKeyword")
                     /\ \E k \in LineOf(i) : tokens[k].from = d.from}
      IN /\ Cardinality(said) <= 1
         /\ said = {} => Parsed \cap LineOf(i) # {}

\* A document without a syntax tree has a diagnostic, one with it has none.
NoSilentFailure == phase = "done" => (ast = Null <=> diagnostics # {})

\* Every document is parsed to its end.
ParsingEnds == <>(phase = "done")
=============================================================================
