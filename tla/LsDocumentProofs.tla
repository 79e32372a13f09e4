--------------------------- MODULE LsDocumentProofs ---------------------------
(* Theorems about LsDocument, for every set of documents.                    *)
EXTENDS LsDocument, FiniteSetTheorems, SequenceTheorems, WellFoundedInduction, TLAPS

-----------------------------------------------------------------------------
(* Least and largest numbers.                                                *)

\* Some number of a set of naturals is the least.
LEMMA Smallest ==
  ASSUME NEW T \in SUBSET Nat, T # {}
  PROVE  \E x \in T : \A y \in T : x <= y
  <1> DEFINE R == OpToRel(<, Nat)
  <1>1. IsWellFoundedOn(R, Nat)
    BY NatLessThanWellFounded
  <1>2. \A x, y \in Nat : x < y => <<x, y>> \in R
    BY DEF OpToRel
  <1> HIDE DEF R
  <1>3. PICK x \in T : \A y \in T : ~ (<<y, x>> \in R)
    BY <1>1, WFMin
  <1>4. ASSUME NEW y \in T
        PROVE  x <= y
    <2>1. x \in Nat /\ y \in Nat /\ ~ (<<y, x>> \in R)
      BY <1>3
    <2>2. ~ (y < x)
      BY <1>2, <2>1
    <2>3. QED
      BY <2>1, <2>2
  <1>5. QED
    BY <1>4

\* Max chooses the largest number of a set that is bounded.
LEMMA Largest ==
  ASSUME NEW n \in Nat, NEW T \in SUBSET (0..n), T # {}
  PROVE  Max(T) \in T /\ \A y \in T : y <= Max(T)
  <1> DEFINE U == {n - x : x \in T}
  <1>1. U \in SUBSET Nat /\ U # {}
    OBVIOUS
  <1>2. PICK u \in U : \A y \in U : u <= y
    BY <1>1, Smallest
  <1>3. PICK x \in T : u = n - x
    BY <1>2
  <1>4. ASSUME NEW y \in T  PROVE x >= y
    <2>1. n - y \in U /\ x \in 0..n /\ y \in 0..n
      OBVIOUS
    <2>2. u <= n - y
      BY <1>2, <2>1
    <2>3. QED
      BY <1>3, <2>1, <2>2
  <1>5. QED
    BY <1>4 DEF Max

-----------------------------------------------------------------------------
(* FlattenSeq.                                                               *)

\* The sequences that FlattenSeq goes through are all defined.
LEMMA FlattenExists ==
  ASSUME NEW S, NEW seqs \in Seq(Seq(S)), NEW m \in Nat, m <= Len(seqs)
  PROVE  \E f \in [1..m -> Seq(S)] :
           \A i \in 1..m : f[i] = IF i = 1 THEN seqs[i] ELSE f[i - 1] \o seqs[i]
  <1> DEFINE Fits(f, n) ==
               \A i \in 1..n : f[i] = IF i = 1 THEN seqs[i] ELSE f[i - 1] \o seqs[i]
             T == {n \in Nat : n <= Len(seqs) /\ ~\E f \in [1..n -> Seq(S)] : Fits(f, n)}
  <1> SUFFICES ASSUME T # {}  PROVE FALSE
    OBVIOUS
  <1>1. PICK n \in T : \A y \in T : n <= y
    <2>1. T \in SUBSET Nat /\ T # {}
      OBVIOUS
    <2> HIDE DEF T
    <2>2. QED
      BY <2>1, Smallest
  <1>2. n # 0
    <2>1. \A f : Fits(f, 0)
      OBVIOUS
    <2>2. [i \in 1..0 |-> <<>>] \in [1..0 -> Seq(S)]
      OBVIOUS
    <2>3. QED
      BY <2>1, <2>2
  <1>3. n \in Nat /\ n - 1 \in Nat /\ n <= Len(seqs)
    BY <1>1, <1>2
  <1>4. PICK f \in [1..n - 1 -> Seq(S)] : Fits(f, n - 1)
    <2>1. n - 1 \notin T
      <3> HIDE DEF T
      <3>1. QED
        BY <1>1, <1>3
    <2>2. n - 1 <= Len(seqs)
      BY <1>3
    <2>3. QED
      BY <1>3, <2>1, <2>2
  <1> DEFINE last == IF n = 1 THEN seqs[n] ELSE f[n - 1] \o seqs[n]
             g == [i \in 1..n |-> IF i = n THEN last ELSE f[i]]
  <1>5. last \in Seq(S)
    <2>1. seqs[n] \in Seq(S)
      BY <1>2, <1>3
    <2>2. n # 1 => f[n - 1] \in Seq(S)
      BY <1>2, <1>3
    <2>3. QED
      BY <2>1, <2>2
  <1>6. g \in [1..n -> Seq(S)]
    BY <1>3, <1>5
  <1>7. Fits(g, n)
    <2> SUFFICES ASSUME NEW i \in 1..n
                 PROVE  g[i] = IF i = 1 THEN seqs[i] ELSE g[i - 1] \o seqs[i]
      OBVIOUS
    <2>1. i # 1 => i - 1 \in 1..n - 1 /\ g[i - 1] = f[i - 1]
      BY <1>3
    <2>2. CASE i = n
      BY <2>1, <2>2
    <2>3. CASE i # n
      <3>1. i \in 1..n - 1 /\ g[i] = f[i]
        BY <1>3, <2>3
      <3>2. QED
        BY <1>4, <2>1, <3>1
    <2>4. QED
      BY <2>2, <2>3
  <1>8. QED
    BY <1>1, <1>6, <1>7

\* FlattenSeq goes through sequences over the same set, each the one before with
\* one more behind it.
LEMMA FlattenSteps ==
  ASSUME NEW S, NEW seqs \in Seq(Seq(S)), seqs # <<>>
  PROVE  \E f : /\ \A i \in 1..Len(seqs) :
                     /\ f[i] \in Seq(S)
                     /\ f[i] = IF i = 1 THEN seqs[i] ELSE f[i - 1] \o seqs[i]
                /\ FlattenSeq(seqs) = f[Len(seqs)]
  <1> DEFINE n == Len(seqs)
             Fits(f) == f = [i \in 1..n |-> IF i = 1 THEN seqs[i] ELSE f[i - 1] \o seqs[i]]
             flatten == CHOOSE f : Fits(f)
  <1>1. n \in Nat /\ n # 0
    OBVIOUS
  <1>2. FlattenSeq(seqs) = flatten[n]
    BY <1>1 DEF FlattenSeq
  <1>3. PICK f \in [1..n -> Seq(S)] :
          \A i \in 1..n : f[i] = IF i = 1 THEN seqs[i] ELSE f[i - 1] \o seqs[i]
    <2>1. n <= Len(seqs)
      BY <1>1
    <2> HIDE DEF n
    <2>2. QED
      BY <1>1, <2>1, FlattenExists
  <1>4. Fits(f)
    BY <1>3
  <1>5. Fits(flatten)
    BY <1>4
  <1> HIDE DEF flatten
  <1>6. \A i \in 1..n : flatten[i] = IF i = 1 THEN seqs[i] ELSE flatten[i - 1] \o seqs[i]
    BY <1>5
  <1> DEFINE T == {i \in 1..n : flatten[i] \notin Seq(S)}
  <1>7. ASSUME T # {}  PROVE FALSE
    <2>1. PICK i \in T : \A y \in T : i <= y
      <3>1. T \in SUBSET Nat
        BY <1>1
      <3> HIDE DEF T
      <3>2. QED
        BY <1>7, <3>1, Smallest
    <2>2. seqs[i] \in Seq(S)
      BY <2>1
    <2>3. CASE i = 1
      BY <1>6, <2>1, <2>2, <2>3
    <2>4. CASE i # 1
      <3>1. i - 1 \in 1..n /\ i - 1 \notin T
        BY <2>1, <2>4
      <3>2. flatten[i - 1] \in Seq(S)
        BY <3>1
      <3>3. flatten[i] = flatten[i - 1] \o seqs[i]
        BY <1>6, <2>1, <2>4
      <3>4. flatten[i - 1] \o seqs[i] \in Seq(S)
        BY <2>2, <3>2, ConcatProperties
      <3>5. QED
        BY <2>1, <3>3, <3>4
    <2>5. QED
      BY <2>3, <2>4
  <1>8. QED
    BY <1>2, <1>6, <1>7

\* What sequences over a set are flattened to is a sequence over it.
LEMMA FlattenIsSeq ==
  ASSUME NEW S, NEW seqs \in Seq(Seq(S)), seqs # <<>>
  PROVE  FlattenSeq(seqs) \in Seq(S)
  <1>1. Len(seqs) \in 1..Len(seqs)
    OBVIOUS
  <1>2. QED
    BY <1>1, FlattenSteps
-----------------------------------------------------------------------------
(* The lexer.                                                                *)

\* Tokens come in the order of the document, none is empty or behind `upto'.
InOrder(toks, upto) ==
  /\ toks \in Seq(Tokens)
  /\ \A t \in DOMAIN toks :
       /\ toks[t].kind # "EOF"
       /\ 1 <= toks[t].from /\ toks[t].from < toks[t].to /\ toks[t].to <= upto
  /\ \A s, t \in DOMAIN toks : s < t => toks[s].to <= toks[t].from

\* The last token, and no other, is the end of the file.
Closed(toks, end) ==
  \E front : InOrder(front, end) /\ toks = Append(front, Token("EOF", end, end))

\* The units before `upto' are blanks, in tokens or under diagnostics.
Accounted(toks, diags, upto) ==
  \A i \in DOMAIN source : i < upto =>
    \/ \E t \in DOMAIN toks : Under(i, toks[t])
    \/ source[i] = "blank"
    \/ \E d \in diags : Under(i, d)

\* A string that is not closed yet is not accounted for.
LexedTo == IF phase = "string" THEN opened ELSE at

LexInv ==
  /\ source \in Seq(Units)
  /\ phase \in {"lex", "string", "parse", "done"}
  /\ at \in 1..Len(source) + 1
  /\ diagnostics \subseteq Diagnostics
  /\ phase = "string" => opened \in 1..at - 1
  /\ phase # "string" => opened = Null
  /\ Accounted(tokens, diagnostics, LexedTo)
  /\ phase \in {"lex", "string"} => InOrder(tokens, LexedTo)
  /\ phase \in {"parse", "done"} => at = Len(source) + 1 /\ Closed(tokens, at)

LEMMA OrderKept ==
  ASSUME NEW toks, NEW n \in Nat, NEW m \in Nat, n <= m, InOrder(toks, n)
  PROVE  InOrder(toks, m)
  <1>1. toks \in Seq(Tokens) /\ \A t \in DOMAIN toks : toks[t] \in Tokens
    BY DEF InOrder
  <1>2. \A t \in DOMAIN toks : toks[t].to \in Nat
    BY <1>1 DEF Tokens
  <1>3. QED
    BY <1>1, <1>2 DEF InOrder

LEMMA OrderAppend ==
  ASSUME NEW toks, NEW n \in Nat, InOrder(toks, n),
         NEW kind \in TokenKinds \ {"EOF"}, NEW from \in Nat, NEW to \in Nat,
         n <= from, 1 <= from, from < to
  PROVE  /\ InOrder(Append(toks, Token(kind, from, to)), to)
         /\ DOMAIN toks \subseteq DOMAIN Append(toks, Token(kind, from, to))
         /\ \A t \in DOMAIN toks : Append(toks, Token(kind, from, to))[t] = toks[t]
         /\ \E t \in DOMAIN Append(toks, Token(kind, from, to)) :
              Append(toks, Token(kind, from, to))[t] = Token(kind, from, to)
  <1> DEFINE tok == Token(kind, from, to)
             more == Append(toks, tok)
             l == Len(toks)
  <1>1. tok \in Tokens /\ tok.kind = kind /\ tok.from = from /\ tok.to = to
    BY DEF Token, Tokens
  <1>2. toks \in Seq(Tokens)
    BY DEF InOrder
  <1> HIDE DEF tok
  <1>3. /\ more \in Seq(Tokens) /\ l \in Nat /\ DOMAIN toks = 1..l /\ DOMAIN more = 1..l + 1
        /\ more[l + 1] = tok /\ \A t \in 1..l : more[t] = toks[t]
    BY <1>1, <1>2
  <1> HIDE DEF more, l
  <1>4. \A t \in 1..l :
          /\ toks[t].kind # "EOF" /\ toks[t].from \in Nat /\ toks[t].to \in Nat
          /\ 1 <= toks[t].from /\ toks[t].from < toks[t].to /\ toks[t].to <= n
    <2>1. \A t \in 1..l : toks[t] \in Tokens
      BY <1>2, <1>3
    <2>2. QED
      BY <1>3, <2>1 DEF InOrder, Tokens
  <1>5. \A t \in 1..l + 1 :
          /\ more[t].kind # "EOF"
          /\ 1 <= more[t].from /\ more[t].from < more[t].to /\ more[t].to <= to
    <2> TAKE t \in 1..l + 1
    <2>1. CASE t = l + 1
      BY <1>1, <1>3, <2>1
    <2>2. CASE t # l + 1
      <3>1. t \in 1..l
        BY <1>3, <2>2
      <3>2. QED
        BY <1>3, <1>4, <3>1
    <2>3. QED
      BY <2>1, <2>2
  <1>6. ASSUME NEW s \in 1..l + 1, NEW t \in 1..l + 1, s < t
        PROVE  more[s].to <= more[t].from
    <2>1. s \in 1..l /\ more[s] = toks[s]
      BY <1>3, <1>6
    <2>2. CASE t = l + 1
      BY <1>1, <1>3, <1>4, <2>1, <2>2
    <2>3. CASE t # l + 1
      <3>1. t \in 1..l
        BY <1>3, <2>3
      <3>2. QED
        BY <1>3, <1>6, <2>1, <3>1 DEF InOrder
    <2>4. QED
      BY <2>2, <2>3
  <1>7. InOrder(more, to)
    BY <1>3, <1>5, <1>6 DEF InOrder
  <1>8. QED
    BY <1>3, <1>7 DEF more, tok

\* Units stay accounted for, when tokens and diagnostics are added.
LEMMA AccountedMore ==
  ASSUME NEW toks, NEW diags, NEW n \in Nat, Accounted(toks, diags, n),
         NEW more, DOMAIN toks \subseteq DOMAIN more, \A t \in DOMAIN toks : more[t] = toks[t],
         NEW reported, diags \subseteq reported, NEW m \in Nat, source \in Seq(Units),
         \A i \in DOMAIN source : n <= i /\ i < m =>
           \/ \E t \in DOMAIN more : Under(i, more[t])
           \/ source[i] = "blank"
           \/ \E d \in reported : Under(i, d)
  PROVE  Accounted(more, reported, m)
  <1> SUFFICES ASSUME NEW i \in DOMAIN source, i < m
               PROVE  \/ \E t \in DOMAIN more : Under(i, more[t])
                      \/ source[i] = "blank"
                      \/ \E d \in reported : Under(i, d)
    BY DEF Accounted
  <1>1. i \in Nat
    OBVIOUS
  <1>2. CASE i < n
    <2>1. \/ \E t \in DOMAIN toks : Under(i, toks[t])
          \/ source[i] = "blank"
          \/ \E d \in diags : Under(i, d)
      BY <1>2 DEF Accounted
    <2>2. QED
      BY <2>1
  <1>3. CASE ~(i < n)
    BY <1>1, <1>3
  <1>4. QED
    BY <1>2, <1>3

\* The end of a word is there.
LEMMA WordEnds ==
  ASSUME source \in Seq(Units), at \in 1..Len(source), Unit \in Letters
  PROVE  /\ WordEnd \in at + 1..Len(source) + 1
         /\ UnitAt(WordEnd) \notin WordParts
         /\ \A k \in at..WordEnd - 1 : UnitAt(k) \in WordParts
  <1> DEFINE n == Len(source)
             T == {j \in at + 1..n + 1 : UnitAt(j) \notin WordParts}
             Ends(j) == /\ UnitAt(j) \notin WordParts
                        /\ \A k \in at..j - 1 : UnitAt(k) \in WordParts
  <1>1. n \in Nat /\ at \in Nat /\ at <= n
    OBVIOUS
  <1>2. n + 1 \in T
    BY <1>1, NullAssumption DEF UnitAt, Units
  <1>3. PICK j \in T : \A k \in T : j <= k
    <2>1. T \in SUBSET Nat /\ T # {}
      BY <1>1, <1>2
    <2> HIDE DEF T
    <2>2. QED
      BY <2>1, Smallest
  <1>4. UnitAt(at) \in WordParts
    BY <1>1 DEF Unit, Ended, UnitAt, WordParts
  <1>5. ASSUME NEW k \in at..j - 1
        PROVE  UnitAt(k) \in WordParts
    <2>1. j \in Nat /\ j <= n + 1 /\ k \in Nat
      BY <1>1
    <2>2. k = at \/ k \in at + 1..n + 1
      BY <1>1, <2>1
    <2>3. k \notin T
      <3>1. ~(j <= k)
        BY <1>1, <2>1
      <3> HIDE DEF T
      <3>2. QED
        BY <1>3, <3>1
    <2>4. QED
      BY <1>4, <2>2, <2>3
  <1>6. j \in at + 1..n + 1 /\ Ends(j)
    BY <1>5
  <1>7. WordEnd = CHOOSE k \in at + 1..n + 1 : Ends(k)
    BY DEF WordEnd
  <1> HIDE DEF Ends
  <1>8. WordEnd \in at + 1..n + 1 /\ Ends(WordEnd)
    BY <1>6, <1>7
  <1>9. QED
    BY <1>8 DEF Ends
\* What the lexer looks at is in the document, unless it is past the end.
LEMMA UnitIsThere ==
  ASSUME source \in Seq(Units), NEW i \in Nat \ {0}
  PROVE  /\ UnitAt(i) \in Units => i \in 1..Len(source) /\ source[i] = UnitAt(i)
         /\ UnitAt(i) \in Units \cup {Null}
         /\ i = at => Unit = UnitAt(i) /\ (Ended <=> UnitAt(i) = Null)
  BY NullAssumption DEF UnitAt, Unit, Ended

LEMMA ReportAdds ==
  ASSUME diagnostics \subseteq Diagnostics,
         NEW code \in Codes, NEW from \in Nat, NEW to \in Nat, Report(code, from, to)
  PROVE  /\ diagnostics' \subseteq Diagnostics /\ diagnostics \subseteq diagnostics'
         /\ \A i : from <= i /\ i < to => \E d \in diagnostics' : Under(i, d)
  <1>1. /\ Diagnostic(code, "EOF", from, to) \in Diagnostics
        /\ Diagnostic(code, "EOF", from, to).from = from
        /\ Diagnostic(code, "EOF", from, to).to = to
    BY DEF Diagnostic, Diagnostics, TokenKinds
  <1>2. QED
    BY <1>1 DEF Report, Under

\* Outside strings the lexer adds a token and goes to its end.
LEMMA TokenKeepsLexInv ==
  ASSUME LexInv, phase \in {"lex", "string"}, NEW kind \in TokenKinds \ {"EOF"},
         phase' = "lex", opened' = Null, at' \in 1..Len(source) + 1, LexedTo < at',
         tokens' = Append(tokens, Token(kind, LexedTo, at')),
         UNCHANGED <<source, diagnostics>>
  PROVE  LexInv'
  <1>1. LexedTo \in Nat /\ 1 <= LexedTo /\ at' \in Nat /\ LexedTo' = at'
    BY DEF LexInv, LexedTo
  <1>2. InOrder(tokens, LexedTo) /\ source \in Seq(Units)
        /\ Accounted(tokens, diagnostics, LexedTo)
    BY DEF LexInv
  <1> HIDE DEF LexedTo
  <1>3. /\ InOrder(tokens', at')
        /\ DOMAIN tokens \subseteq DOMAIN tokens' /\ \A t \in DOMAIN tokens : tokens'[t] = tokens[t]
        /\ \E t \in DOMAIN tokens' : tokens'[t] = Token(kind, LexedTo, at')
    <2> DEFINE more(n, m) == Append(tokens, Token(kind, n, m))
    <2>1. ASSUME NEW n \in Nat, 1 <= n, NEW m \in Nat, n < m, InOrder(tokens, n)
          PROVE  /\ InOrder(more(n, m), m)
                 /\ DOMAIN tokens \subseteq DOMAIN more(n, m)
                 /\ \A t \in DOMAIN tokens : more(n, m)[t] = tokens[t]
                 /\ \E t \in DOMAIN more(n, m) : more(n, m)[t] = Token(kind, n, m)
      <3>1. n <= n
        BY <2>1
      <3>2. QED
        BY SMTT(30), <2>1, <3>1, OrderAppend
    <2>2. tokens' = more(LexedTo, at')
      OBVIOUS
    <2> HIDE DEF more
    <2>3. QED
      BY <1>1, <1>2, <2>1, <2>2
  <1>4. \A i \in DOMAIN source : LexedTo <= i /\ i < at' =>
          \/ \E t \in DOMAIN tokens' : Under(i, tokens'[t])
          \/ source[i] = "blank"
          \/ \E d \in diagnostics : Under(i, d)
    BY <1>3 DEF Under, Token
  <1>5. Accounted(tokens', diagnostics, at')
    <2>1. diagnostics \subseteq diagnostics
      OBVIOUS
    <2>2. QED
      BY <1>1, <1>2, <1>3, <1>4, <2>1, AccountedMore
  <1>6. QED
    BY <1>1, <1>3, <1>5 DEF LexInv, Accounted

\* So it does over blanks and reported pieces.
LEMMA GapKeepsLexInv ==
  ASSUME LexInv, phase \in {"lex", "string"},
         phase' = "lex", opened' = Null, at' \in 1..Len(source) + 1, LexedTo <= at',
         \A i \in DOMAIN source : LexedTo <= i /\ i < at' =>
           source[i] = "blank" \/ \E d \in diagnostics' : Under(i, d),
         diagnostics \subseteq diagnostics', diagnostics' \subseteq Diagnostics,
         UNCHANGED <<source, tokens>>
  PROVE  LexInv'
  <1>1. LexedTo \in Nat /\ at' \in Nat /\ LexedTo' = at'
    BY DEF LexInv, LexedTo
  <1>2. InOrder(tokens, LexedTo) /\ source \in Seq(Units)
    BY DEF LexInv
  <1>3. InOrder(tokens, at')
    BY <1>1, <1>2, OrderKept
  <1>4. Accounted(tokens, diagnostics', at')
    BY <1>1, <1>2, AccountedMore DEF LexInv
  <1>5. QED
    BY <1>1, <1>2, <1>3, <1>4 DEF LexInv, Accounted

\* Within a string nothing is accounted for yet.
LEMMA StringKeepsLexInv ==
  ASSUME LexInv, phase \in {"lex", "string"}, phase' = "string", opened' = LexedTo,
         at' \in 1..Len(source) + 1, LexedTo < at',
         diagnostics \subseteq diagnostics', diagnostics' \subseteq Diagnostics,
         UNCHANGED <<source, tokens>>
  PROVE  LexInv'
  <1>1. LexedTo \in Nat /\ 1 <= LexedTo /\ at' \in Nat /\ LexedTo' = LexedTo
    BY DEF LexInv, LexedTo
  <1>2. source \in Seq(Units) /\ DOMAIN source \subseteq Nat
    BY DEF LexInv
  <1>3. \A i \in DOMAIN source : ~(LexedTo <= i /\ i < LexedTo)
    BY <1>1, <1>2
  <1>4. Accounted(tokens, diagnostics', LexedTo)
    BY <1>1, <1>2, <1>3, AccountedMore DEF LexInv
  <1>5. Accounted(tokens, diagnostics, LexedTo)'
    BY <1>1, <1>4 DEF Accounted
  <1>6. opened' \in 1..at' - 1
    <2>1. \A a, b \in Nat : 1 <= a /\ a < b => a \in 1..b - 1
      OBVIOUS
    <2> HIDE DEF LexedTo
    <2>2. QED
      BY <1>1, <2>1
  <1>7. InOrder(tokens, LexedTo)'
    BY <1>1 DEF LexInv
  <1>8. QED
    BY <1>2, <1>5, <1>6, <1>7 DEF LexInv

LEMMA LexKeepsLexInv ==
  ASSUME LexInv, Lex
  PROVE  LexInv'
  <1>1. /\ source \in Seq(Units) /\ Len(source) \in Nat /\ DOMAIN source = 1..Len(source)
        /\ at \in 1..Len(source) + 1 /\ at \in Nat \ {0} /\ at + 1 \in Nat \ {0}
        /\ diagnostics \subseteq Diagnostics
        /\ phase = "string" => opened \in 1..at - 1 /\ opened \in Nat /\ opened < at
    BY DEF LexInv
  <1>2. /\ phase = "lex" => LexedTo = at /\ opened = Null
        /\ phase = "string" => LexedTo = opened
    BY DEF LexInv, LexedTo
  <1>3. /\ Unit \in Units => at \in 1..Len(source) /\ source[at] = Unit
        /\ Unit \in Units \cup {Null} /\ (Ended <=> Unit = Null)
        /\ UnitAt(at) = Unit
    BY <1>1, UnitIsThere
  <1>4. CASE SkipBlank
    <2>1. Unit \in Units /\ phase = "lex"
      BY <1>4 DEF SkipBlank, Units
    <2>2. at' \in 1..Len(source) + 1 /\ LexedTo <= at' /\ phase' = "lex" /\ opened' = Null
          /\ UNCHANGED <<source, tokens, diagnostics>>
      BY <1>1, <1>2, <1>3, <1>4, <2>1 DEF SkipBlank, input
    <2>3. \A i \in DOMAIN source : LexedTo <= i /\ i < at' => source[i] = "blank"
      BY <1>1, <1>2, <1>3, <1>4, <2>1 DEF SkipBlank
    <2>4. QED
      BY <1>1, <2>1, <2>2, <2>3, GapKeepsLexInv
  <1>5. CASE LexNewline
    <2>1. BreakAt(at) \in 1..2 /\ at + BreakAt(at) \in 1..Len(source) + 1 /\ phase = "lex"
      <3>1. UnitAt(at) = "lf" => at \in 1..Len(source)
        BY <1>3 DEF Units, LineBreaks
      <3>2. UnitAt(at + 1) = "lf" => at + 1 \in 1..Len(source)
        BY <1>1, UnitIsThere DEF Units, LineBreaks
      <3>3. QED
        BY <1>1, <1>5, <3>1, <3>2 DEF LexNewline, BreakAt
    <2>2. QED
      BY <1>1, <1>2, <1>5, <2>1, TokenKeepsLexInv DEF LexNewline, input, TokenKinds
  <1>6. CASE OpenString
    <2>1. at \in 1..Len(source) /\ phase = "lex"
      BY <1>3, <1>6 DEF OpenString, Units
    <2>2. QED
      BY <1>1, <1>2, <1>6, <2>1, StringKeepsLexInv DEF OpenString, input
  <1>7. CASE CloseString
    <2>1. at \in 1..Len(source) /\ phase = "string"
      BY <1>3, <1>7 DEF CloseString, Units
    <2>2. QED
      BY <1>1, <1>2, <1>7, <2>1, TokenKeepsLexInv DEF CloseString, input, TokenKinds
  <1>8. CASE BreakString
    <2>1. phase = "string" /\ at' \in 1..Len(source) + 1 /\ at <= at'
      <3>1. Unit = "backslash" => at \in 1..Len(source)
        BY <1>3 DEF Units
      <3>2. QED
        BY <1>1, <1>8, <3>1 DEF BreakString, BehindPiece
    <2>2. Report("LEX_UNTERMINATED_STRING", opened, at') /\ phase' = "lex" /\ opened' = Null
          /\ UNCHANGED <<source, tokens>>
      BY <1>8 DEF BreakString, input
    <2>3. /\ diagnostics' \subseteq Diagnostics /\ diagnostics \subseteq diagnostics'
          /\ \A i : opened <= i /\ i < at' => \E d \in diagnostics' : Under(i, d)
      BY <1>1, <2>1, <2>2, ReportAdds DEF Codes
    <2>4. LexedTo <= at'
      BY <1>1, <1>2, <2>1
    <2>5. QED
      BY <1>2, <2>1, <2>2, <2>3, <2>4, GapKeepsLexInv
  <1>9. CASE Escape
    <2>1. phase = "string" /\ at + 2 \in 1..Len(source) + 1 /\ at' = at + 2
      <3>1. UnitAt(at + 1) # Null /\ UnitAt(at + 1) \in Units \cup {Null}
        BY <1>1, <1>3, <1>9, UnitIsThere DEF Escape, BrokenOff
      <3>2. at + 1 \in 1..Len(source)
        BY <1>1, <3>1, UnitIsThere
      <3>3. QED
        BY <1>1, <1>9, <3>2 DEF Escape
    <2>2. diagnostics' \subseteq Diagnostics /\ diagnostics \subseteq diagnostics'
      <3>1. CASE UNCHANGED diagnostics
        BY <1>1, <3>1
      <3>2. CASE Report("LEX_INVALID_ESCAPE", at, at')
        BY <1>1, <2>1, <3>2, ReportAdds DEF Codes
      <3>3. QED
        BY <1>9, <3>1, <3>2 DEF Escape
    <2>3. QED
      BY <1>1, <1>2, <1>9, <2>1, <2>2, StringKeepsLexInv DEF Escape, input
  <1>10. CASE StringChar
    <2>1. phase = "string" /\ at \in 1..Len(source)
      BY <1>3, <1>10 DEF StringChar, BrokenOff
    <2>2. QED
      BY <1>1, <1>2, <1>10, <2>1, StringKeepsLexInv DEF StringChar, input
  <1>11. CASE LexWord
    <2>1. at \in 1..Len(source) /\ phase = "lex" /\ Unit \in Letters
      BY <1>3, <1>11 DEF LexWord, Units, WordParts
    <2>2. at' \in at + 1..Len(source) + 1
      BY <1>1, <1>11, <2>1, WordEnds DEF LexWord
    <2>3. PICK kind \in TokenKinds \ {"EOF"} : tokens' = Append(tokens, Token(kind, at, at'))
      BY <1>11 DEF LexWord, TokenKinds, KeywordKinds, Keywords
    <2>4. QED
      BY <1>1, <1>2, <1>11, <2>1, <2>2, <2>3, TokenKeepsLexInv DEF LexWord, input
  <1>12. CASE UnexpectedCharacter
    <2>1. phase = "lex" /\ at \in 1..Len(source) /\ at' = at + 1
      BY <1>3, <1>12 DEF UnexpectedCharacter
    <2>2. /\ diagnostics' \subseteq Diagnostics /\ diagnostics \subseteq diagnostics'
          /\ \A i : at <= i /\ i < at' => \E d \in diagnostics' : Under(i, d)
      BY <1>1, <1>12, <2>1, ReportAdds DEF UnexpectedCharacter, Codes
    <2>3. phase' = "lex" /\ opened' = Null /\ UNCHANGED <<source, tokens>>
      BY <1>2, <1>12, <2>1 DEF UnexpectedCharacter, input
    <2>4. QED
      BY <1>1, <1>2, <2>1, <2>2, <2>3, GapKeepsLexInv
  <1>13. CASE EndOfFile
    <2>1. phase = "lex" /\ at = Len(source) + 1 /\ phase' \in {"parse", "done"}
          /\ tokens' = Append(tokens, Token("EOF", at, at))
          /\ UNCHANGED <<source, at, opened, diagnostics>>
      BY <1>1, <1>13 DEF EndOfFile, Ended, input
    <2>2. InOrder(tokens, at) /\ Accounted(tokens, diagnostics, at) /\ opened = Null
      BY <1>2, <2>1 DEF LexInv
    <2>3. Closed(tokens', at)
      BY <2>1, <2>2 DEF Closed
    <2>4. DOMAIN tokens \subseteq DOMAIN tokens' /\ \A t \in DOMAIN tokens : tokens'[t] = tokens[t]
      BY <2>1, <2>2 DEF InOrder
    <2>5. Accounted(tokens', diagnostics, at)
      BY <2>2, <2>4 DEF Accounted
    <2>6. LexedTo' = at
      BY <2>1 DEF LexedTo
    <2>7. QED
      BY <1>1, <2>1, <2>2, <2>3, <2>5, <2>6 DEF LexInv, Accounted
  <1>14. QED
    BY <1>4, <1>5, <1>6, <1>7, <1>8, <1>9, <1>10, <1>11, <1>12, <1>13 DEF Lex
-----------------------------------------------------------------------------
(* The tokens that the parser reads.                                         *)

\* What is known of a finished list of tokens.
LEMMA ClosedTokens ==
  ASSUME NEW end \in Nat, 1 <= end, Closed(tokens, end), NEW n, n = Len(tokens)
  PROVE  /\ tokens \in Seq(Tokens) /\ n \in Nat \ {0} /\ DOMAIN tokens = 1..n
         /\ \A i \in 1..n : /\ tokens[i] \in Tokens /\ (Kind(i) = "EOF" <=> i = n)
                            /\ tokens[i].from \in Nat /\ tokens[i].to \in Nat
                            /\ Kind(i) \in TokenKinds
         /\ \A i, k \in 1..n :
              i < k => tokens[i].from < tokens[k].from /\ tokens[i].to <= tokens[k].from
  <1> DEFINE eof == Token("EOF", end, end)
  <1>1. PICK front : InOrder(front, end) /\ tokens = Append(front, eof)
    BY DEF Closed
  <1>2. eof \in Tokens /\ eof.kind = "EOF" /\ eof.from = end /\ eof.to = end
    BY DEF Token, Tokens, TokenKinds
  <1> HIDE DEF eof
  <1>3. front \in Seq(Tokens)
    BY <1>1 DEF InOrder
  <1>4. /\ tokens \in Seq(Tokens) /\ n \in Nat \ {0} /\ DOMAIN tokens = 1..n
        /\ DOMAIN front = 1..n - 1 /\ tokens[n] = eof
        /\ \A i \in 1..n - 1 : tokens[i] = front[i]
    BY <1>1, <1>2, <1>3
  <1>5. \A i \in 1..n : /\ tokens[i] \in Tokens /\ tokens[i].from \in Nat
                        /\ tokens[i].to \in Nat /\ Kind(i) \in TokenKinds
    <2>1. \A i \in 1..n : tokens[i] \in Tokens
      BY <1>4
    <2>2. QED
      BY <2>1 DEF Tokens, Kind
  <1>6. \A i \in 1..n - 1 :
          /\ Kind(i) # "EOF" /\ tokens[i].from < tokens[i].to /\ tokens[i].to <= end
    BY <1>1, <1>4 DEF InOrder, Kind
  <1>7. \A i \in 1..n : Kind(i) = "EOF" <=> i = n
    <2> TAKE i \in 1..n
    <2>1. i = n \/ i \in 1..n - 1
      BY <1>4
    <2>2. QED
      BY <1>2, <1>4, <1>6, <2>1 DEF Kind
  <1>8. ASSUME NEW i \in 1..n, NEW k \in 1..n, i < k
        PROVE  tokens[i].from < tokens[k].from /\ tokens[i].to <= tokens[k].from
    <2>1. i \in 1..n - 1 /\ tokens[i].from \in Nat /\ tokens[i].to \in Nat
      BY <1>4, <1>5, <1>8
    <2>2. tokens[i].from < tokens[i].to /\ tokens[k].from \in Nat
      BY <1>5, <1>6, <2>1
    <2>3. tokens[i].to <= tokens[k].from
      <3>1. CASE k = n
        BY <1>2, <1>4, <1>6, <2>1, <3>1
      <3>2. CASE k # n
        <4>1. k \in 1..n - 1
          BY <1>4, <3>2
        <4>2. front[i].to <= front[k].from
          BY <1>1, <1>4, <1>8, <2>1, <4>1 DEF InOrder
        <4>3. QED
          BY <1>4, <2>1, <4>1, <4>2
      <3>3. QED
        BY <3>1, <3>2
    <2>4. QED
      BY <2>1, <2>2, <2>3
  <1>9. QED
    BY <1>4, <1>5, <1>7, <1>8

\* While the parser is at work, and after it.
Lexed ==
  /\ tokens \in Seq(Tokens) /\ Len(tokens) \in Nat \ {0} /\ DOMAIN tokens = 1..Len(tokens)
  /\ \A i \in DOMAIN tokens :
       /\ tokens[i] \in Tokens /\ (Kind(i) = "EOF" <=> i = Len(tokens))
       /\ tokens[i].from \in Nat /\ tokens[i].to \in Nat /\ Kind(i) \in TokenKinds
  /\ \A i, k \in DOMAIN tokens :
       i < k => tokens[i].from < tokens[k].from /\ tokens[i].to <= tokens[k].from

LEMMA LexInvLexed ==
  ASSUME LexInv, phase \in {"parse", "done"}
  PROVE  Lexed
  <1>1. at \in Nat /\ 1 <= at /\ Closed(tokens, at)
    BY DEF LexInv
  <1>2. QED
    BY <1>1, ClosedTokens DEF Lexed

\* Newlines are gone past: there is the end of the file.
LEMMA PastNewlinesIs ==
  ASSUME Lexed, NEW i \in DOMAIN tokens, NEW j, j = PastNewlines(i)
  PROVE  /\ j \in DOMAIN tokens /\ i <= j /\ Kind(j) # "Newline"
         /\ \A k \in i..j - 1 : Kind(k) = "Newline"
  <1> DEFINE n == Len(tokens)
             T == {k \in i..n : Kind(k) # "Newline"}
             Found(k) == Kind(k) # "Newline" /\ \A l \in i..k - 1 : Kind(l) = "Newline"
  <1>1. n \in Nat /\ i \in 1..n /\ DOMAIN tokens = 1..n
    BY DEF Lexed
  <1>2. n \in T
    BY <1>1 DEF Lexed
  <1>3. PICK x \in T : \A k \in T : x <= k
    <2>1. T \in SUBSET Nat /\ T # {}
      BY <1>1, <1>2
    <2> HIDE DEF T
    <2>2. QED
      BY <2>1, Smallest
  <1>4. ASSUME NEW l \in i..x - 1  PROVE Kind(l) = "Newline"
    <2>1. x \in i..n /\ l \in i..n /\ ~(x <= l)
      BY <1>1, <1>3
    <2>2. l \notin T
      <3> HIDE DEF T
      <3>1. QED
        BY <1>3, <2>1
    <2>3. QED
      BY <2>1, <2>2
  <1>5. x \in i..n /\ Found(x)
    BY <1>3, <1>4
  <1>6. j = CHOOSE k \in i..n : Found(k)
    BY DEF PastNewlines
  <1> HIDE DEF Found
  <1>7. j \in i..n /\ Found(j)
    BY <1>5, <1>6
  <1>8. QED
    BY <1>1, <1>7 DEF Found

\* Every token is on a line, which a newline or the end of the file ends.
LEMMA LineBoundaryIs ==
  ASSUME Lexed, NEW i \in DOMAIN tokens, NEW j, j = LineBoundary(i)
  PROVE  /\ j \in DOMAIN tokens /\ i <= j /\ Kind(j) \in LineEnds
         /\ \A k \in i..j - 1 : Kind(k) \notin LineEnds
  <1> DEFINE n == Len(tokens)
             T == {k \in i..n : Kind(k) \in LineEnds}
             Found(k) == Kind(k) \in LineEnds /\ \A l \in i..k - 1 : Kind(l) \notin LineEnds
  <1>1. n \in Nat /\ i \in 1..n /\ DOMAIN tokens = 1..n
    BY DEF Lexed
  <1>2. n \in T
    BY <1>1 DEF Lexed, LineEnds
  <1>3. PICK x \in T : \A k \in T : x <= k
    <2>1. T \in SUBSET Nat /\ T # {}
      BY <1>1, <1>2
    <2> HIDE DEF T
    <2>2. QED
      BY <2>1, Smallest
  <1>4. ASSUME NEW l \in i..x - 1  PROVE Kind(l) \notin LineEnds
    <2>1. x \in i..n /\ l \in i..n /\ ~(x <= l)
      BY <1>1, <1>3
    <2>2. l \notin T
      <3> HIDE DEF T
      <3>1. QED
        BY <1>3, <2>1
    <2>3. QED
      BY <2>1, <2>2
  <1>5. x \in i..n /\ Found(x)
    BY <1>3, <1>4
  <1>6. j = CHOOSE k \in i..n : Found(k)
    BY DEF LineBoundary
  <1> HIDE DEF Found
  <1>7. j \in i..n /\ Found(j)
    BY <1>5, <1>6
  <1>8. QED
    BY <1>1, <1>7 DEF Found

\* Tokens have one line boundary if none of them ends a line.
LEMMA SameLine ==
  ASSUME Lexed, NEW i \in DOMAIN tokens, NEW k \in DOMAIN tokens, i <= k,
         \A l \in i..k - 1 : Kind(l) \notin LineEnds
  PROVE  LineBoundary(i) = LineBoundary(k)
  <1> DEFINE a == LineBoundary(i)
             b == LineBoundary(k)
  <1>1. /\ a \in DOMAIN tokens /\ i <= a /\ Kind(a) \in LineEnds
        /\ \A l \in i..a - 1 : Kind(l) \notin LineEnds
    BY LineBoundaryIs
  <1>2. /\ b \in DOMAIN tokens /\ k <= b /\ Kind(b) \in LineEnds
        /\ \A l \in k..b - 1 : Kind(l) \notin LineEnds
    BY LineBoundaryIs
  <1> HIDE DEF a, b
  <1>3. a \in Nat /\ b \in Nat /\ i \in Nat /\ k \in Nat
    BY <1>1, <1>2 DEF Lexed
  <1>4. ~(a < k)
    BY <1>1, <1>3
  <1>5. ~(a < b)
    BY <1>1, <1>2, <1>3, <1>4
  <1>6. ~(b < a)
    BY <1>1, <1>2, <1>3
  <1>7. QED
    BY <1>3, <1>5, <1>6 DEF a, b

\* A declaration is on its line: its parts end no line, and one token follows.
DeclarationKinds == {"GoalKeyword", "CapabilityKeyword", "CheckKeyword"}

LEMMA MatchedFits ==
  ASSUME Lexed, NEW i \in DOMAIN tokens, Kind(i) \in DeclarationKinds,
         NEW form, form = Form[Kind(i)], NEW m, m = Matched(i)
  PROVE  /\ m \in 0..Len(form) /\ \A k \in 1..m : Kind(i + k) = form[k]
         /\ m < Len(form) => Kind(i + m + 1) # form[m + 1]
         /\ Len(form) \in 1..2
         /\ \A k \in 1..Len(form) : form[k] \in {"StringLiteral", "Identifier"}
  <1> DEFINE Fits(n) == /\ \A k \in 1..n : Kind(i + k) = form[k]
                        /\ n < Len(form) => Kind(i + n + 1) # form[n + 1]
  <1>1. /\ Len(form) \in 1..2
        /\ \A k \in 1..Len(form) : form[k] \in {"StringLiteral", "Identifier"}
    BY DEF Form, DeclarationKinds
  <1>2. m = CHOOSE n \in 0..Len(form) : Fits(n)
    BY DEF Matched
  <1>3. \E n \in 0..Len(form) : Fits(n)
    <2>1. CASE Kind(i + 1) # form[1]
      <3>1. Fits(0)
        BY <1>1, <2>1 DEF Lexed
      <3>2. QED
        BY <1>1, <3>1
    <2>2. CASE Kind(i + 1) = form[1] /\ (Len(form) = 1 \/ Kind(i + 2) # form[2])
      <3>1. Fits(1)
        BY <1>1, <2>2 DEF Lexed
      <3>2. QED
        BY <1>1, <3>1
    <2>3. CASE Kind(i + 1) = form[1] /\ Len(form) = 2 /\ Kind(i + 2) = form[2]
      <3>1. Fits(2)
        BY <1>1, <2>3
      <3>2. QED
        BY <1>1, <2>3, <3>1
    <2>4. QED
      BY <1>1, <2>1, <2>2, <2>3
  <1> HIDE DEF Fits
  <1>4. m \in 0..Len(form) /\ Fits(m)
    BY <1>2, <1>3
  <1>5. QED
    BY <1>1, <1>4 DEF Fits

LEMMA MatchedIs ==
  ASSUME Lexed, NEW i \in DOMAIN tokens, Kind(i) \in DeclarationKinds
  PROVE  /\ Matched(i) \in 0..2 /\ Matched(i) \in 0..Len(Form[Kind(i)])
         /\ Behind(i) \in DOMAIN tokens /\ Behind(i) - 1 \in DOMAIN tokens /\ i < Behind(i)
         /\ \A k \in i..Behind(i) - 1 : Kind(k) \notin LineEnds
  <1> DEFINE form == Form[Kind(i)]
             m == Matched(i)
  <1>1. /\ m \in 0..Len(form) /\ \A k \in 1..m : Kind(i + k) = form[k]
        /\ Len(form) \in 1..2
        /\ \A k \in 1..Len(form) : form[k] \in {"StringLiteral", "Identifier"}
    BY MatchedFits
  <1> HIDE DEF form, m
  <1>2. m \in 0..2 /\ \A k \in 1..m : Kind(i + k) \in {"StringLiteral", "Identifier"}
    BY <1>1
  <1>3. i \in Nat /\ i \in 1..Len(tokens) /\ Len(tokens) \in Nat /\ i # Len(tokens)
    BY DEF Lexed, DeclarationKinds
  <1>4. i + 1 \in DOMAIN tokens
    BY <1>3 DEF Lexed
  <1>5. m >= 1 => i + 2 \in DOMAIN tokens
    BY <1>2, <1>3, <1>4 DEF Lexed
  <1>6. m = 2 => i + 3 \in DOMAIN tokens
    BY <1>2, <1>3, <1>5 DEF Lexed
  <1>7. i + 1 + m \in DOMAIN tokens /\ i + m \in DOMAIN tokens
    BY <1>2, <1>3, <1>4, <1>5, <1>6
  <1>8. \A k \in i..i + m : Kind(k) \notin LineEnds
    <2> TAKE k \in i..i + m
    <2>1. k = i \/ (k - i \in 1..m /\ k = i + (k - i))
      BY <1>2, <1>3
    <2>2. QED
      BY <1>2, <2>1 DEF LineEnds, DeclarationKinds
  <1>9. Behind(i) = i + 1 + m
    BY DEF Behind, m
  <1>10. QED
    BY <1>1, <1>2, <1>3, <1>7, <1>8, <1>9 DEF m, form
-----------------------------------------------------------------------------
(* The parser.                                                               *)

NothingParsed ==
  index = 1 /\ goal = Null /\ capabilities = {} /\ checks = {} /\ saw = {} /\ ast = Null

DeclaredAs(i, kind) == i \in DOMAIN tokens /\ Kind(i) = kind /\ Declared(i)

\* What was declared is a declaration, and what was not, though the parser has
\* come to its keyword, has a diagnostic.
ParseInv ==
  /\ section \in {"goal", "capability", "check"}
  /\ section = "goal" => NothingParsed
  /\ phase \in {"lex", "string"} => section = "goal"
  /\ phase \in {"parse", "done"} => index \in DOMAIN tokens
  /\ goal # Null => DeclaredAs(goal, "GoalKeyword")
  /\ \A i \in capabilities : DeclaredAs(i, "CapabilityKeyword")
  /\ \A i \in checks : DeclaredAs(i, "CheckKeyword")
  /\ "CapabilityKeyword" \in saw /\ capabilities = {} => diagnostics # {}
  /\ "CheckKeyword" \in saw /\ checks = {} => diagnostics # {}
  /\ phase # "done" => ast = Null
  /\ phase = "done" /\ section = "goal" => diagnostics # {}
  /\ NoSilentFailure

\* The tokens, and all that is read off them, stay while the parser is at work.
LEMMA TokensStay ==
  ASSUME UNCHANGED tokens, NEW i
  PROVE  /\ Kind(i)' = Kind(i) /\ LineBoundary(i)' = LineBoundary(i)
         /\ PastNewlines(i)' = PastNewlines(i) /\ Matched(i)' = Matched(i)
         /\ Behind(i)' = Behind(i) /\ Declared(i)' = Declared(i)
  BY DEF Kind, LineBoundary, PastNewlines, Matched, Behind, Declared

\* A diagnostic about a token is a diagnostic.
LEMMA DiagnosticAtIs ==
  ASSUME Lexed, NEW i \in DOMAIN tokens, NEW code \in Codes, NEW about \in TokenKinds
  PROVE  /\ DiagnosticAt(code, about, i) \in Diagnostics
         /\ DiagnosticAt(code, about, i).code = code
         /\ DiagnosticAt(code, about, i).about = about
         /\ DiagnosticAt(code, about, i).from = tokens[i].from
  BY DEF Lexed, DiagnosticAt, Diagnostic, Diagnostics

\* A declaration is whole, or has a diagnostic; what follows it has one at most.
LEMMA DeclarationDiagnosticsAre ==
  ASSUME Lexed, NEW i \in DOMAIN tokens, Kind(i) \in DeclarationKinds
  PROVE  /\ DeclarationDiagnostics(i) \subseteq Diagnostics
         /\ ~Declared(i) => DeclarationDiagnostics(i) # {}
         /\ \A c, d \in DeclarationDiagnostics(i) : c = d
         /\ \A d \in DeclarationDiagnostics(i) :
              /\ d.from = tokens[Behind(i)].from
              /\ d.code \in {"PARSE_EXPECTED_TOKEN", "PARSE_UNEXPECTED_TOKEN"}
  <1>1. Behind(i) \in DOMAIN tokens /\ Kind(i) \in TokenKinds
    BY MatchedIs DEF Lexed
  <1>2. "PARSE_EXPECTED_TOKEN" \in Codes /\ "PARSE_UNEXPECTED_TOKEN" \in Codes
    BY DEF Codes
  <1>3. \A code \in {"PARSE_EXPECTED_TOKEN", "PARSE_UNEXPECTED_TOKEN"} :
          /\ DiagnosticAt(code, Kind(i), Behind(i)) \in Diagnostics
          /\ DiagnosticAt(code, Kind(i), Behind(i)).code = code
          /\ DiagnosticAt(code, Kind(i), Behind(i)).from = tokens[Behind(i)].from
    BY <1>1, <1>2, DiagnosticAtIs
  <1>4. QED
    BY <1>3 DEF DeclarationDiagnostics

\* The rest of a line ends where the line does.
LEMMA RestOfLineIs ==
  ASSUME Lexed, NEW i \in DOMAIN tokens, Kind(i) \in DeclarationKinds
  PROVE  RestOfLine(i) = LineBoundary(i)
  <1>1. /\ Behind(i) \in DOMAIN tokens /\ i < Behind(i)
        /\ \A k \in i..Behind(i) - 1 : Kind(k) \notin LineEnds
    BY MatchedIs
  <1>2. i <= Behind(i)
    BY <1>1 DEF Lexed
  <1>3. QED
    BY <1>1, <1>2, SameLine DEF RestOfLine

\* A line that is skipped is gone past, but not the end of the file.
LEMMA PastLineIs ==
  ASSUME Lexed, NEW i \in DOMAIN tokens, NEW b, b = LineBoundary(i)
  PROVE  /\ PastLine(i) \in DOMAIN tokens
         /\ Kind(b) = "EOF" => PastLine(i) = b
         /\ Kind(b) # "EOF" => PastLine(i) = b + 1 /\ Kind(b) = "Newline"
  <1>1. b \in DOMAIN tokens /\ Kind(b) \in LineEnds
    BY LineBoundaryIs
  <1>2. Kind(b) # "EOF" => b + 1 \in DOMAIN tokens
    BY <1>1 DEF Lexed
  <1>3. QED
    BY <1>1, <1>2 DEF PastLine, LineEnds

\* A missing declaration is reported at some place.
LEMMA AnchorIs ==
  ASSUME Lexed, ParseInv, NEW k
  PROVE  /\ Anchor(k) \in Nat
         /\ tokens[PastNewlines(1)].from \in Nat /\ tokens[PastNewlines(1)].to \in Nat
  <1>1. 1 \in DOMAIN tokens
    BY DEF Lexed
  <1>2. PastNewlines(1) \in DOMAIN tokens
    BY <1>1, PastNewlinesIs
  <1>3. ASSUME NEW i \in DOMAIN tokens, Kind(i) \in DeclarationKinds
        PROVE  EndOf(i) \in Nat
    <2>1. Behind(i) - 1 \in DOMAIN tokens
      BY <1>3, MatchedIs
    <2>2. QED
      BY <2>1 DEF EndOf, Lexed
  <1>4. ASSUME capabilities # {}  PROVE EndOf(Max(capabilities)) \in Nat
    <2>1. Len(tokens) \in Nat /\ capabilities \in SUBSET (0..Len(tokens))
      BY DEF ParseInv, DeclaredAs, Lexed
    <2>2. Max(capabilities) \in capabilities
      BY <1>4, <2>1, Largest
    <2>3. QED
      BY <1>3, <2>2 DEF ParseInv, DeclaredAs, DeclarationKinds
  <1>5. goal # Null => EndOf(goal) \in Nat
    BY <1>3 DEF ParseInv, DeclaredAs, DeclarationKinds
  <1>6. QED
    BY <1>2, <1>4, <1>5 DEF Anchor, Lexed
\* Where the parser is at.
LEMMA AtWork ==
  ASSUME LexInv, ParseInv, phase = "parse", NEW i, i = Current
  PROVE  /\ Lexed /\ index \in DOMAIN tokens
         /\ i \in DOMAIN tokens /\ index <= i /\ Kind(i) # "Newline"
         /\ \A k \in index..i - 1 : Kind(k) = "Newline"
  <1>1. Lexed /\ index \in DOMAIN tokens
    BY LexInvLexed DEF ParseInv
  <1>2. QED
    BY <1>1, PastNewlinesIs DEF Current

LEMMA DeclaredStay ==
  ASSUME UNCHANGED tokens, NEW i, NEW kind
  PROVE  DeclaredAs(i, kind)' <=> DeclaredAs(i, kind)
  BY TokensStay DEF DeclaredAs

\* The parser adds diagnostics to those of the lexer.
LEMMA ParseKeepsLexInv ==
  ASSUME LexInv, ParseInv, Parse
  PROVE  LexInv' /\ diagnostics \subseteq diagnostics'
  <1> DEFINE i == Current
  <1>1. /\ phase = "parse" /\ phase' \in {"parse", "done"}
        /\ UNCHANGED <<source, at, opened, tokens>>
    BY DEF Parse, ParseGoal, ParseCapability, ParseCheck, SkipLine, Conclude, input, lexer
  <1>2. /\ Lexed /\ i \in DOMAIN tokens /\ Kind(i) \in TokenKinds
        /\ diagnostics \subseteq Diagnostics
    BY <1>1, AtWork DEF Lexed, LexInv
  <1>3. ASSUME Kind(i) \in DeclarationKinds
        PROVE  DeclarationDiagnostics(i) \subseteq Diagnostics
    BY <1>2, <1>3, DeclarationDiagnosticsAre
  <1>4. \A code \in Codes, about \in TokenKinds : DiagnosticAt(code, about, i) \in Diagnostics
    BY <1>2, DiagnosticAtIs
  <1> HIDE DEF i
  <1>5. diagnostics \subseteq diagnostics' /\ diagnostics' \subseteq Diagnostics
    <2>1. CASE ParseGoal
      <3>1. CASE Kind(i) = "GoalKeyword"
        BY <1>2, <1>3, <2>1, <3>1 DEF ParseGoal, Declaration, DeclarationKinds, i
      <3>2. CASE Kind(i) # "GoalKeyword"
        <4>1. DiagnosticAt("PARSE_EXPECTED_DECLARATION", "GoalKeyword", i) \in Diagnostics
          BY <1>4 DEF Codes, TokenKinds
        <4>2. QED
          BY <1>2, <2>1, <3>2, <4>1 DEF ParseGoal, i
      <3>3. QED
        BY <3>1, <3>2
    <2>2. CASE ParseCapability
      BY <1>2, <1>3, <2>2 DEF ParseCapability, Declaration, DeclarationKinds, i
    <2>3. CASE ParseCheck
      BY <1>2, <1>3, <2>3 DEF ParseCheck, Declaration, DeclarationKinds, i
    <2>4. CASE SkipLine
      <3>1. PICK code \in {"PARSE_UNEXPECTED_TOKEN", "PARSE_EXPECTED_DECLARATION"} :
              diagnostics' = diagnostics \cup {DiagnosticAt(code, Kind(i), i)}
        BY <2>4 DEF SkipLine, i
      <3>2. DiagnosticAt(code, Kind(i), i) \in Diagnostics
        BY <1>2, <1>4 DEF Codes
      <3>3. QED
        BY <1>2, <3>1, <3>2
    <2>5. CASE Conclude
      <3>1. \A k \in TokenKinds : \A to \in Nat :
              Diagnostic("PARSE_MISSING_REQUIRED_DECLARATION", k, Anchor(k), to) \in Diagnostics
        BY <1>2, AnchorIs DEF Diagnostic, Diagnostics, Codes
      <3>2. \A k : /\ Anchor(k) \in Nat /\ tokens[PastNewlines(1)].to \in Nat
        BY <1>2, AnchorIs
      <3>3. Missing \subseteq TokenKinds
        BY DEF Missing, TokenKinds
      <3> DEFINE end(k) == IF k = "GoalKeyword" THEN tokens[PastNewlines(1)].to ELSE Anchor(k)
                 missing(k) == Diagnostic("PARSE_MISSING_REQUIRED_DECLARATION", k, Anchor(k), end(k))
      <3>4. diagnostics' = diagnostics \cup {missing(k) : k \in Missing}
        BY <2>5 DEF Conclude
      <3>5. \A k \in Missing : missing(k) \in Diagnostics
        <4>1. \A k : end(k) \in Nat
          BY <3>2
        <4> HIDE DEF end
        <4>2. QED
          BY <3>1, <3>3, <4>1
      <3> HIDE DEF missing
      <3>6. QED
        BY <1>2, <3>4, <3>5
    <2>6. QED
      BY <2>1, <2>2, <2>3, <2>4, <2>5 DEF Parse
  <1>6. LexedTo' = LexedTo
    BY <1>1 DEF LexedTo
  <1>7. Accounted(tokens, diagnostics, LexedTo)'
    BY <1>1, <1>5, <1>6 DEF LexInv, Accounted
  <1>8. QED
    BY <1>1, <1>5, <1>6, <1>7 DEF LexInv

LEMMA LexKeepsParseInv ==
  ASSUME LexInv, ParseInv, Lex
  PROVE  ParseInv'
  <1>1. phase \in {"lex", "string"}
    BY DEF Lex, SkipBlank, LexNewline, OpenString, CloseString, BreakString, Escape,
       StringChar, LexWord, UnexpectedCharacter, EndOfFile
  <1>2. section = "goal" /\ NothingParsed
    BY <1>1 DEF ParseInv
  <1>3. UNCHANGED <<section, index, goal, capabilities, checks, saw, ast>>
    BY DEF Lex, SkipBlank, LexNewline, OpenString, CloseString, BreakString, Escape,
       StringChar, LexWord, UnexpectedCharacter, EndOfFile, parsed
  <1>4. \/ phase' \in {"lex", "string"}
        \/ phase' = "parse" /\ diagnostics' = {} /\ EndOfFile
        \/ phase' = "done" /\ diagnostics' # {} /\ EndOfFile
    BY DEF Lex, SkipBlank, LexNewline, OpenString, CloseString, BreakString, Escape,
       StringChar, LexWord, UnexpectedCharacter, EndOfFile
  <1>5. phase' \in {"parse", "done"} => index' \in DOMAIN tokens'
    <2> SUFFICES ASSUME EndOfFile  PROVE 1 \in DOMAIN tokens'
      BY <1>2, <1>3, <1>4 DEF NothingParsed
    <2>1. tokens \in Seq(Tokens)
      BY <1>1 DEF LexInv, InOrder
    <2>2. Token("EOF", at, at) \in Tokens
      BY DEF LexInv, Token, Tokens, TokenKinds
    <2>3. QED
      BY <2>1, <2>2 DEF EndOfFile
  <1>6. QED
    BY <1>2, <1>3, <1>4, <1>5 DEF ParseInv, NothingParsed, NoSilentFailure

LEMMA ParseKeepsParseInv ==
  ASSUME LexInv, ParseInv, Parse
  PROVE  ParseInv'
  <1> DEFINE i == Current
  <1>1. /\ phase = "parse" /\ UNCHANGED tokens /\ diagnostics \subseteq diagnostics'
        /\ goal \in Nat \cup {Null} /\ capabilities \subseteq Nat /\ checks \subseteq Nat
    <2>1. phase = "parse" /\ UNCHANGED tokens
      BY DEF Parse, ParseGoal, ParseCapability, ParseCheck, SkipLine, Conclude, lexer
    <2>2. DOMAIN tokens \subseteq Nat
      BY <2>1, AtWork DEF Lexed
    <2>3. QED
      BY <2>1, <2>2, ParseKeepsLexInv DEF ParseInv, DeclaredAs
  <1>2. /\ Lexed /\ i \in DOMAIN tokens /\ Kind(i) \in TokenKinds /\ i \in Nat
        /\ ast = Null
    <2>1. Lexed /\ i \in DOMAIN tokens
      BY <1>1, AtWork
    <2> HIDE DEF i
    <2>2. QED
      BY <1>1, <2>1 DEF Lexed, ParseInv
  <1>3. \A k, kind : DeclaredAs(k, kind)' <=> DeclaredAs(k, kind)
    BY <1>1, DeclaredStay
  <1>4. ASSUME Kind(i) \in DeclarationKinds
        PROVE  /\ RestOfLine(i) \in DOMAIN tokens
               /\ ~Declared(i) => DeclarationDiagnostics(i) # {}
    BY <1>2, <1>4, RestOfLineIs, LineBoundaryIs, DeclarationDiagnosticsAre
  <1> HIDE DEF i
  <1>5. CASE ParseGoal
    <2>1. /\ section' = "capability" /\ section = "goal" /\ phase' = "parse"
          /\ UNCHANGED <<capabilities, checks, saw, ast>>
      BY <1>1, <1>5 DEF ParseGoal
    <2>2. NothingParsed
      BY <2>1 DEF ParseInv
    <2>3. index' \in DOMAIN tokens
      BY <1>2, <1>4, <1>5 DEF ParseGoal, Declaration, DeclarationKinds, i
    <2>4. goal' # Null => DeclaredAs(goal', "GoalKeyword")
      BY <1>2, <1>5, <2>2 DEF ParseGoal, DeclaredAs, NothingParsed, i
    <2>5. (goal # Null => DeclaredAs(goal, "GoalKeyword"))'
      BY <1>3, <2>4
    <2>6. QED
      BY <1>1, <2>1, <2>2, <2>3, <2>5 DEF ParseInv, NothingParsed, NoSilentFailure
  <1>6. CASE ParseCapability
    <2>1. /\ section = "capability" /\ phase' = "parse" /\ Kind(i) = "CapabilityKeyword"
          /\ diagnostics' = diagnostics \cup DeclarationDiagnostics(i)
          /\ index' = RestOfLine(i)
          /\ capabilities' = IF Declared(i) THEN capabilities \cup {i} ELSE capabilities
          /\ saw' = saw \cup {"CapabilityKeyword"}
          /\ UNCHANGED <<section, goal, checks, ast>>
      BY <1>1, <1>6 DEF ParseCapability, Declaration, i
    <2>2. index' \in DOMAIN tokens' /\ (~Declared(i) => diagnostics' # {})
      BY <1>1, <1>4, <2>1 DEF DeclarationKinds
    <2>3. \A k \in capabilities' : DeclaredAs(k, "CapabilityKeyword")
      BY <1>2, <2>1 DEF ParseInv, DeclaredAs
    <2>4. \A k \in capabilities' : DeclaredAs(k, "CapabilityKeyword")'
      BY <1>3, <2>3
    <2>5. capabilities' = {} => diagnostics' # {}
      BY <2>1, <2>2
    <2>6. "CheckKeyword" \in saw' /\ checks' = {} => diagnostics' # {}
      BY <1>1, <2>1 DEF ParseInv
    <2>7. (goal' # Null => DeclaredAs(goal, "GoalKeyword")') /\
          \A k \in checks' : DeclaredAs(k, "CheckKeyword")'
      BY <1>3, <2>1 DEF ParseInv
    <2>8. QED
      BY <1>2, <2>1, <2>2, <2>4, <2>5, <2>6, <2>7 DEF ParseInv, NoSilentFailure
  <1>7. CASE ParseCheck
    <2>1. /\ section' = "check" /\ phase' = "parse" /\ Kind(i) = "CheckKeyword"
          /\ diagnostics' = diagnostics \cup DeclarationDiagnostics(i)
          /\ index' = RestOfLine(i)
          /\ checks' = IF Declared(i) THEN checks \cup {i} ELSE checks
          /\ saw' = saw \cup {"CheckKeyword"}
          /\ UNCHANGED <<goal, capabilities, ast>>
      BY <1>1, <1>7 DEF ParseCheck, Declaration, i
    <2>2. index' \in DOMAIN tokens' /\ (~Declared(i) => diagnostics' # {})
      BY <1>1, <1>4, <2>1 DEF DeclarationKinds
    <2>3. \A k \in checks' : DeclaredAs(k, "CheckKeyword")
      BY <1>2, <2>1 DEF ParseInv, DeclaredAs
    <2>4. \A k \in checks' : DeclaredAs(k, "CheckKeyword")'
      BY <1>3, <2>3
    <2>5. checks' = {} => diagnostics' # {}
      BY <2>1, <2>2
    <2>6. "CapabilityKeyword" \in saw' /\ capabilities' = {} => diagnostics' # {}
      BY <1>1, <2>1 DEF ParseInv
    <2>7. (goal' # Null => DeclaredAs(goal, "GoalKeyword")') /\
          \A k \in capabilities' : DeclaredAs(k, "CapabilityKeyword")'
      BY <1>3, <2>1 DEF ParseInv
    <2>8. QED
      BY <1>2, <2>1, <2>2, <2>4, <2>5, <2>6, <2>7 DEF ParseInv, NoSilentFailure
  <1>8. CASE SkipLine
    <2>1. /\ section # "goal" /\ phase' = "parse" /\ index' = PastLine(i)
          /\ diagnostics' # {}
          /\ UNCHANGED <<section, goal, capabilities, checks, ast>>
      BY <1>1, <1>8 DEF SkipLine, i
    <2>2. index' \in DOMAIN tokens'
      BY <1>1, <1>2, <2>1, PastLineIs
    <2>3. /\ (goal' # Null => DeclaredAs(goal, "GoalKeyword")')
          /\ \A k \in capabilities' : DeclaredAs(k, "CapabilityKeyword")'
          /\ \A k \in checks' : DeclaredAs(k, "CheckKeyword")'
      BY <1>3, <2>1 DEF ParseInv
    <2>4. QED
      BY <1>2, <2>1, <2>2, <2>3 DEF ParseInv, NoSilentFailure
  <1>9. CASE Conclude
    <2>1. /\ section # "goal" /\ phase' = "done" /\ index' = i
          /\ ast' = IF goal = Null \/ capabilities = {} \/ checks = {} \/ diagnostics' # {}
                    THEN Null
                    ELSE [goal |-> goal, capabilities |-> capabilities, checks |-> checks]
          /\ UNCHANGED <<section, goal, capabilities, checks, saw>>
      BY <1>9 DEF Conclude, i
    <2>2. \A k \in Missing : diagnostics' # {}
      BY <1>9 DEF Conclude
    <2>3. goal = Null => diagnostics' # {}
      <3>1. goal = Null => diagnostics # {} \/ "GoalKeyword" \in Missing
        BY DEF Missing, MissingGoal
      <3>2. QED
        BY <1>1, <2>2, <3>1
    <2>4. capabilities = {} => diagnostics' # {}
      <3>1. capabilities = {} => diagnostics # {} \/ "CapabilityKeyword" \in Missing
        BY DEF Missing, ParseInv
      <3>2. QED
        BY <1>1, <2>2, <3>1
    <2>5. checks = {} => diagnostics' # {}
      <3>1. checks = {} => diagnostics # {} \/ "CheckKeyword" \in Missing
        BY DEF Missing, ParseInv
      <3>2. QED
        BY <1>1, <2>2, <3>1
    <2>6. goal # Null =>
            [goal |-> goal, capabilities |-> capabilities, checks |-> checks] # Null
      <3>1. goal # Null =>
              [goal |-> goal, capabilities |-> capabilities, checks |-> checks] \in Asts
        BY <1>1 DEF Asts
      <3>2. QED
        BY <3>1, NullAssumption
    <2>7. NoSilentFailure'
      BY <2>1, <2>3, <2>4, <2>5, <2>6 DEF NoSilentFailure
    <2>8. /\ (goal' # Null => DeclaredAs(goal, "GoalKeyword")')
          /\ \A k \in capabilities' : DeclaredAs(k, "CapabilityKeyword")'
          /\ \A k \in checks' : DeclaredAs(k, "CheckKeyword")'
      BY <1>3, <2>1 DEF ParseInv
    <2>9. /\ "CapabilityKeyword" \in saw' /\ capabilities' = {} => diagnostics' # {}
          /\ "CheckKeyword" \in saw' /\ checks' = {} => diagnostics' # {}
      BY <2>1, <2>4, <2>5
    <2>10. QED
      BY <1>1, <1>2, <2>1, <2>7, <2>8, <2>9 DEF ParseInv
  <1>10. QED
    BY <1>5, <1>6, <1>7, <1>8, <1>9 DEF Parse
-----------------------------------------------------------------------------
(* What each line is answered with.                                          *)

\* Missing declarations, and a first line that is no goal, are not counted.
Counted(d) ==
  /\ d.code # "PARSE_MISSING_REQUIRED_DECLARATION"
  /\ ~(d.code = "PARSE_EXPECTED_DECLARATION" /\ d.about = "GoalKeyword")

Said(i) ==
  {d \in diagnostics : Counted(d) /\ \E k \in LineOf(i) : tokens[k].from = d.from}

Answered(i) ==
  /\ \A c, d \in Said(i) : c = d
  /\ Said(i) = {} => Parsed \cap LineOf(i) # {}

\* The parser is past a token, or at one that ends a line.
Passed(k) == k < index \/ (k = index /\ Kind(k) \in LineEnds)

\* The parser stands where a line ends or starts, no diagnostic is about a token
\* it has not come to, and the lines behind it are answered.
AnswerInv ==
  phase = "parse" \/ (phase = "done" /\ section # "goal") =>
    /\ Kind(index) \in LineEnds \/ index = 1 \/ Kind(index - 1) = "Newline"
    /\ \A d \in diagnostics : Counted(d) =>
         \E k \in DOMAIN tokens : tokens[k].from = d.from /\ Passed(k)
    /\ \A i \in DOMAIN tokens : i < index /\ Kind(i) \notin LineEnds => Answered(i)
    /\ phase = "done" => index = Len(tokens)

\* A token before the start of a line is on another one.
LEMMA EarlierLine ==
  ASSUME Lexed, NEW i \in DOMAIN tokens, NEW k \in DOMAIN tokens, k < i,
         Kind(i - 1) = "Newline"
  PROVE  LineBoundary(k) # LineBoundary(i)
  <1> DEFINE a == LineBoundary(k)
             b == LineBoundary(i)
  <1>1. /\ a \in DOMAIN tokens /\ k <= a
        /\ \A l \in k..a - 1 : Kind(l) \notin LineEnds
    BY LineBoundaryIs
  <1>2. b \in DOMAIN tokens /\ i <= b
    BY LineBoundaryIs
  <1> HIDE DEF a, b
  <1>3. a \in Nat /\ b \in Nat /\ i \in Nat /\ k \in Nat
    BY <1>1, <1>2 DEF Lexed
  <1>4. i - 1 \notin k..a - 1
    BY <1>1 DEF LineEnds
  <1>5. a # b
    BY <1>2, <1>3, <1>4
  <1>6. QED
    BY <1>5 DEF a, b

\* Where the parser starts its next step: at the end of the file or of a line's
\* start, and past all that it has reported.
LEMMA AtLineStart ==
  ASSUME LexInv, ParseInv, AnswerInv, phase = "parse", NEW i, i = Current
  PROVE  /\ Kind(i) = "EOF" \/ i = 1 \/ Kind(i - 1) = "Newline"
         /\ \A d \in diagnostics : Counted(d) =>
              \E k \in DOMAIN tokens :
                tokens[k].from = d.from /\ (k < i \/ (k = i /\ Kind(k) = "EOF"))
         /\ \A j \in DOMAIN tokens : j < i /\ Kind(j) \notin LineEnds =>
              j < index /\ Answered(j)
  <1>1. /\ Lexed /\ index \in DOMAIN tokens /\ i \in DOMAIN tokens /\ index <= i
        /\ Kind(i) # "Newline" /\ \A k \in index..i - 1 : Kind(k) = "Newline"
    BY AtWork
  <1>2. index \in Nat /\ i \in Nat /\ DOMAIN tokens \subseteq Nat
    BY <1>1 DEF Lexed
  <1>3. /\ Kind(index) \in LineEnds \/ index = 1 \/ Kind(index - 1) = "Newline"
        /\ \A d \in diagnostics : Counted(d) =>
             \E k \in DOMAIN tokens : tokens[k].from = d.from /\ Passed(k)
        /\ \A j \in DOMAIN tokens : j < index /\ Kind(j) \notin LineEnds => Answered(j)
    BY DEF AnswerInv
  <1>4. index # i => Kind(i - 1) = "Newline"
    BY <1>1, <1>2
  <1>5. \A k \in DOMAIN tokens : Passed(k) => k < i \/ (k = i /\ Kind(k) = "EOF")
    BY <1>1, <1>2 DEF Passed, LineEnds
  <1>6. \A j \in DOMAIN tokens : j < i /\ Kind(j) \notin LineEnds => j < index
    BY <1>1, <1>2 DEF LineEnds
  <1>7. QED
    BY <1>1, <1>3, <1>4, <1>5, <1>6 DEF LineEnds

\* What is said of a line, after a step that adds diagnostics.
LEMMA SaidMore ==
  ASSUME UNCHANGED tokens, NEW more, diagnostics' = diagnostics \cup more, NEW i
  PROVE  /\ LineOf(i)' = LineOf(i)
         /\ Said(i)' = Said(i) \cup
              {d \in more : Counted(d) /\ \E k \in LineOf(i) : tokens[k].from = d.from}
  <1>1. LineOf(i)' = LineOf(i)
    BY TokensStay DEF LineOf
  <1>2. QED
    BY <1>1 DEF Said

\* A line stays answered, if nothing more is said of it.
LEMMA StillAnswered ==
  ASSUME UNCHANGED tokens, NEW more, diagnostics' = diagnostics \cup more, NEW j,
         Answered(j), Parsed \cap DOMAIN tokens \subseteq Parsed',
         \A d \in more : Counted(d) => ~\E k \in LineOf(j) : tokens[k].from = d.from
  PROVE  Answered(j)'
  <1>1. LineOf(j)' = LineOf(j) /\ Said(j)' = Said(j)
    BY SaidMore
  <1>2. LineOf(j) \subseteq DOMAIN tokens
    BY DEF LineOf
  <1>3. QED
    BY <1>1, <1>2 DEF Answered

\* A step to the next line's start, which says of no line what counts.
LEMMA GoingOnKeepsAnswers ==
  ASSUME LexInv, ParseInv, AnswerInv, phase = "parse", NEW i, i = Current,
         index' = i, UNCHANGED <<tokens, capabilities, checks>>,
         goal' = goal,
         NEW more, diagnostics' = diagnostics \cup more, \A d \in more : ~Counted(d),
         phase' = "done" => Kind(i) = "EOF"
  PROVE  AnswerInv'
  <1>1. Lexed /\ i \in DOMAIN tokens
    BY AtWork
  <1>2. /\ Kind(i) = "EOF" \/ i = 1 \/ Kind(i - 1) = "Newline"
        /\ \A d \in diagnostics : Counted(d) =>
             \E k \in DOMAIN tokens :
               tokens[k].from = d.from /\ (k < i \/ (k = i /\ Kind(k) = "EOF"))
        /\ \A j \in DOMAIN tokens : j < i /\ Kind(j) \notin LineEnds => Answered(j)
    BY AtLineStart
  <1>3. \A k : Kind(k)' = Kind(k)
    BY TokensStay
  <1>4. \A k : k < i \/ (k = i /\ Kind(k) = "EOF") => Passed(k)'
    BY <1>3 DEF Passed, LineEnds
  <1>5. (Kind(index) \in LineEnds \/ index = 1 \/ Kind(index - 1) = "Newline")'
    BY <1>2, <1>3 DEF LineEnds
  <1>6. \A d \in diagnostics' : Counted(d) =>
          \E k \in DOMAIN tokens : tokens[k].from = d.from /\ Passed(k)'
    BY <1>2, <1>4
  <1>7. ASSUME NEW j \in DOMAIN tokens, j < i, Kind(j) \notin LineEnds
        PROVE  Answered(j)'
    <2>1. Parsed' = Parsed /\ Answered(j)
      BY <1>2, <1>7 DEF Parsed
    <2>2. QED
      BY <2>1, StillAnswered
  <1>8. phase' = "done" => i = Len(tokens)
    BY <1>1 DEF Lexed
  <1>9. QED
    BY <1>3, <1>5, <1>6, <1>7, <1>8 DEF AnswerInv

\* A step over a line, which it parses or says one thing of.
LEMMA LineKeepsAnswers ==
  ASSUME LexInv, ParseInv, AnswerInv, phase = "parse", phase' = "parse",
         NEW i, i = Current, Kind(i) # "EOF", NEW b, b = LineBoundary(i),
         index' = b \/ (index' = b + 1 /\ Kind(b) = "Newline"), UNCHANGED tokens,
         NEW more, diagnostics' = diagnostics \cup more, \A c, d \in more : c = d,
         \A d \in more : Counted(d) /\ \E k \in LineOf(i) : tokens[k].from = d.from,
         Parsed \cap DOMAIN tokens \subseteq Parsed',
         more = {} => i \in Parsed'
  PROVE  AnswerInv'
  <1>1. /\ Lexed /\ i \in DOMAIN tokens /\ Kind(i) \notin LineEnds
        /\ \A j, k \in DOMAIN tokens : tokens[j].from = tokens[k].from => j = k
    <2>1. Lexed /\ i \in DOMAIN tokens /\ Kind(i) # "Newline"
      BY AtWork
    <2>2. ASSUME NEW j \in DOMAIN tokens, NEW k \in DOMAIN tokens,
                 tokens[j].from = tokens[k].from
          PROVE  j = k
      <3>1. /\ j \in Nat /\ k \in Nat /\ tokens[j].from \in Nat
            /\ ~(j < k) /\ ~(k < j)
        BY <2>1, <2>2 DEF Lexed
      <3>2. QED
        BY <3>1
    <2>3. QED
      BY <2>1, <2>2 DEF LineEnds
  <1>2. /\ i = 1 \/ Kind(i - 1) = "Newline"
        /\ \A d \in diagnostics : Counted(d) =>
             \E k \in DOMAIN tokens : tokens[k].from = d.from /\ k < i
        /\ \A j \in DOMAIN tokens : j < i /\ Kind(j) \notin LineEnds => Answered(j)
    BY <1>1, AtLineStart DEF LineEnds
  <1>3. /\ b \in DOMAIN tokens /\ i <= b /\ Kind(b) \in LineEnds
        /\ \A k \in i..b - 1 : Kind(k) \notin LineEnds
        /\ b \in Nat /\ i \in Nat /\ DOMAIN tokens \subseteq Nat \ {0} /\ index' \in Nat
    <2>1. /\ b \in DOMAIN tokens /\ i <= b /\ Kind(b) \in LineEnds
          /\ \A k \in i..b - 1 : Kind(k) \notin LineEnds
      BY <1>1, LineBoundaryIs
    <2>2. QED
      BY <1>1, <2>1 DEF Lexed
  <1>4. \A k : Kind(k)' = Kind(k)
    BY TokensStay
  <1>5. \A k \in DOMAIN tokens : k < i => LineBoundary(k) # b
    BY <1>1, <1>2, <1>3, EarlierLine
  <1>6. \A k \in DOMAIN tokens : LineBoundary(k) = b => k <= b
    BY <1>1, LineBoundaryIs
  <1>7. (Kind(index) \in LineEnds \/ index = 1 \/ Kind(index - 1) = "Newline")'
    BY <1>3, <1>4
  <1>8. ASSUME NEW d \in diagnostics', Counted(d)
        PROVE  \E k \in DOMAIN tokens : tokens[k].from = d.from /\ Passed(k)'
    <2>1. CASE d \in diagnostics
      <3>1. PICK k \in DOMAIN tokens : tokens[k].from = d.from /\ k < i
        BY <1>2, <1>8, <2>1
      <3>2. k < index'
        BY <1>3, <3>1
      <3>3. QED
        BY <3>1, <3>2 DEF Passed
    <2>2. CASE d \in more
      <3>1. PICK k \in LineOf(i) : tokens[k].from = d.from
        BY <2>2
      <3>2. k \in DOMAIN tokens /\ k <= b
        BY <1>6, <3>1 DEF LineOf
      <3>3. k < index' \/ (k = index' /\ Kind(k)' \in LineEnds)
        BY <1>3, <1>4, <3>2
      <3>4. QED
        BY <3>1, <3>2, <3>3 DEF Passed
    <2>3. QED
      BY <2>1, <2>2
  <1>9. ASSUME NEW j \in DOMAIN tokens, j < index', Kind(j) \notin LineEnds
        PROVE  Answered(j)'
    <2>1. CASE j < i
      <3>1. LineOf(j) \cap LineOf(i) = {}
        BY <1>5, <2>1 DEF LineOf
      <3>2. \A d \in more : ~\E k \in LineOf(j) : tokens[k].from = d.from
        BY <1>1, <3>1 DEF LineOf
      <3>3. QED
        BY <1>2, <1>9, <2>1, <3>2, StillAnswered
    <2>2. CASE ~(j < i)
      <3>1. j < b /\ i <= j
        BY <1>3, <1>9, <2>2
      <3>2. LineBoundary(j) = b
        <4>1. \A k \in i..j - 1 : Kind(k) \notin LineEnds
          BY <1>3, <3>1
        <4>2. QED
          BY <1>1, <3>1, <4>1, SameLine
      <3>3. LineOf(j) = LineOf(i) /\ LineOf(j)' = LineOf(i) /\ i \in LineOf(i)
        <4>1. LineOf(j) = LineOf(i) /\ i \in LineOf(i)
          BY <1>1, <3>2 DEF LineOf
        <4>2. LineOf(j)' = LineOf(j)
          BY TokensStay DEF LineOf
        <4>3. QED
          BY <4>1, <4>2
      <3>4. Said(j) = {}
        <4>1. SUFFICES ASSUME NEW d \in diagnostics, Counted(d), NEW l \in LineOf(i),
                              tokens[l].from = d.from
                       PROVE  FALSE
          BY <3>3 DEF Said
        <4>2. PICK k \in DOMAIN tokens : tokens[k].from = d.from /\ k < i
          BY <1>2, <4>1
        <4>3. l \in DOMAIN tokens /\ l = k /\ LineBoundary(l) = b
          BY <1>1, <4>1, <4>2 DEF LineOf
        <4>4. QED
          BY <1>5, <4>2, <4>3
      <3>5. Said(j)' = more
        <4>1. Said(j)' = Said(j) \cup
                {d \in more : Counted(d) /\ \E k \in LineOf(j) : tokens[k].from = d.from}
          BY SaidMore
        <4>2. QED
          BY <3>3, <3>4, <4>1
      <3>6. QED
        BY <3>3, <3>5 DEF Answered
    <2>3. QED
      BY <2>1, <2>2
  <1>10. QED
    BY <1>4, <1>7, <1>8, <1>9 DEF AnswerInv

\* What is said of a declaration counts, and is about a token of its line.
LEMMA DeclarationSays ==
  ASSUME Lexed, NEW i \in DOMAIN tokens, Kind(i) \in DeclarationKinds
  PROVE  \A d \in DeclarationDiagnostics(i) :
           Counted(d) /\ \E k \in LineOf(i) : tokens[k].from = d.from
  <1>1. Behind(i) \in LineOf(i)
    BY MatchedIs, RestOfLineIs DEF LineOf, RestOfLine
  <1>2. QED
    BY <1>1, DeclarationDiagnosticsAre DEF Counted

\* A declaration's line is answered.
LEMMA DeclarationKeepsAnswers ==
  ASSUME LexInv, ParseInv, AnswerInv, phase = "parse", phase' = "parse",
         NEW i, i = Current, Kind(i) \in DeclarationKinds, Declaration(i), UNCHANGED tokens,
         Parsed \cap DOMAIN tokens \subseteq Parsed', Declared(i) => i \in Parsed'
  PROVE  AnswerInv'
  <1> DEFINE more == DeclarationDiagnostics(i)
             b == LineBoundary(i)
  <1>1. Lexed /\ i \in DOMAIN tokens
    BY AtWork
  <1>2. /\ \A c, d \in more : c = d
        /\ ~Declared(i) => more # {}
    BY <1>1, DeclarationDiagnosticsAre
  <1>3. \A d \in more : Counted(d) /\ \E k \in LineOf(i) : tokens[k].from = d.from
    BY <1>1, DeclarationSays
  <1>4. diagnostics' = diagnostics \cup more /\ index' = b /\ Kind(i) # "EOF"
    BY <1>1, RestOfLineIs DEF Declaration, DeclarationKinds
  <1>5. b = LineBoundary(i)
    OBVIOUS
  <1>6. more = {} => i \in Parsed'
    BY <1>2
  <1> HIDE DEF more, b
  <1>7. QED
    BY <1>2, <1>3, <1>4, <1>5, <1>6, LineKeepsAnswers

LEMMA ParseKeepsAnswerInv ==
  ASSUME LexInv, ParseInv, AnswerInv, Parse
  PROVE  AnswerInv'
  <1> DEFINE i == Current
  <1>1. phase = "parse" /\ UNCHANGED tokens
    BY DEF Parse, ParseGoal, ParseCapability, ParseCheck, SkipLine, Conclude, lexer
  <1>2. /\ Lexed /\ i \in DOMAIN tokens /\ Kind(i) \in TokenKinds \ {"Newline"}
        /\ DOMAIN tokens \subseteq Nat
    BY <1>1, AtWork DEF Lexed
  <1>3. i = Current
    OBVIOUS
  <1> HIDE DEF i
  <1>4. CASE ParseGoal
    <2>1. phase' = "parse" /\ section = "goal" /\ UNCHANGED <<capabilities, checks>>
      BY <1>1, <1>4 DEF ParseGoal
    <2>2. goal = Null /\ goal \notin DOMAIN tokens
      BY <1>2, <2>1, NullAssumption DEF ParseInv, NothingParsed
    <2>3. CASE Kind(i) = "GoalKeyword"
      <3>1. Declaration(i) /\ goal' = IF Declared(i) THEN i ELSE Null
        BY <1>3, <1>4, <2>3 DEF ParseGoal
      <3>2. Parsed \cap DOMAIN tokens \subseteq Parsed' /\ (Declared(i) => i \in Parsed')
        BY <2>1, <2>2, <3>1 DEF Parsed
      <3>3. QED
        BY <1>1, <1>3, <2>1, <2>3, <3>1, <3>2, DeclarationKeepsAnswers DEF DeclarationKinds
    <2>4. CASE Kind(i) # "GoalKeyword"
      <3> DEFINE d == DiagnosticAt("PARSE_EXPECTED_DECLARATION", "GoalKeyword", i)
      <3>1. diagnostics' = diagnostics \cup {d} /\ index' = i /\ goal' = goal
        BY <1>3, <1>4, <2>4 DEF ParseGoal
      <3>2. ~Counted(d)
        BY DEF Counted, DiagnosticAt, Diagnostic
      <3> DEFINE more == {d}
      <3>3. diagnostics' = diagnostics \cup more /\ \A c \in more : ~Counted(c)
        BY <3>1, <3>2
      <3>4. UNCHANGED <<tokens, capabilities, checks>> /\ goal' = goal /\ index' = i
        BY <1>1, <2>1, <3>1
      <3>5. phase' = "done" => Kind(i) = "EOF"
        BY <2>1
      <3> HIDE DEF d, more
      <3>6. QED
        BY <1>1, <1>3, <3>3, <3>4, <3>5, GoingOnKeepsAnswers
    <2>5. QED
      BY <2>3, <2>4
  <1>5. CASE ParseCapability
    <2>1. /\ phase' = "parse" /\ Kind(i) = "CapabilityKeyword" /\ Declaration(i)
          /\ capabilities' = IF Declared(i) THEN capabilities \cup {i} ELSE capabilities
          /\ UNCHANGED <<goal, checks>>
      BY <1>1, <1>3, <1>5 DEF ParseCapability
    <2>2. Parsed \cap DOMAIN tokens \subseteq Parsed' /\ (Declared(i) => i \in Parsed')
      BY <2>1 DEF Parsed
    <2>3. QED
      BY <1>1, <1>3, <2>1, <2>2, DeclarationKeepsAnswers DEF DeclarationKinds
  <1>6. CASE ParseCheck
    <2>1. /\ phase' = "parse" /\ Kind(i) = "CheckKeyword" /\ Declaration(i)
          /\ checks' = IF Declared(i) THEN checks \cup {i} ELSE checks
          /\ UNCHANGED <<goal, capabilities>>
      BY <1>1, <1>3, <1>6 DEF ParseCheck
    <2>2. Parsed \cap DOMAIN tokens \subseteq Parsed' /\ (Declared(i) => i \in Parsed')
      BY <2>1 DEF Parsed
    <2>3. QED
      BY <1>1, <1>3, <2>1, <2>2, DeclarationKeepsAnswers DEF DeclarationKinds
  <1>7. CASE SkipLine
    <2> DEFINE unexpected == Kind(i) \in {"GoalKeyword", "CapabilityKeyword"}
               code == IF unexpected THEN "PARSE_UNEXPECTED_TOKEN"
                       ELSE "PARSE_EXPECTED_DECLARATION"
               d == DiagnosticAt(code, Kind(i), i)
               b == LineBoundary(i)
    <2>1. /\ phase' = "parse" /\ diagnostics' = diagnostics \cup {d}
          /\ Kind(i) # "EOF" /\ index' = PastLine(i)
          /\ UNCHANGED <<goal, capabilities, checks>>
      BY <1>1, <1>3, <1>7 DEF SkipLine
    <2>2. Counted(d) /\ d.from = tokens[i].from
      BY DEF Counted, DiagnosticAt, Diagnostic
    <2>3. b = LineBoundary(i)
      OBVIOUS
    <2> DEFINE more == {d}
    <2> HIDE DEF d, b
    <2>4. index' = b \/ (index' = b + 1 /\ Kind(b) = "Newline")
      BY <1>2, <2>1, <2>3, PastLineIs
    <2>5. i \in LineOf(i)
      BY <1>2 DEF LineOf
    <2>6. Parsed \cap DOMAIN tokens \subseteq Parsed'
      BY <2>1 DEF Parsed
    <2>7. /\ \A c \in more : Counted(c) /\ \E k \in LineOf(i) : tokens[k].from = c.from
          /\ \A c, e \in more : c = e
          /\ diagnostics' = diagnostics \cup more
          /\ more = {} => i \in Parsed'
      BY <2>1, <2>2, <2>5
    <2> HIDE DEF more
    <2>8. QED
      BY <1>1, <1>3, <2>1, <2>3, <2>4, <2>6, <2>7, LineKeepsAnswers
  <1>8. CASE Conclude
    <2> DEFINE end(k) == IF k = "GoalKeyword" THEN tokens[PastNewlines(1)].to ELSE Anchor(k)
               missing(k) == Diagnostic("PARSE_MISSING_REQUIRED_DECLARATION", k, Anchor(k), end(k))
               more == {missing(k) : k \in Missing}
    <2>1. /\ diagnostics' = diagnostics \cup more /\ index' = i /\ Kind(i) = "EOF"
          /\ UNCHANGED <<goal, capabilities, checks>>
      BY <1>3, <1>8 DEF Conclude
    <2>2. \A d \in more : ~Counted(d)
      BY DEF Counted, Diagnostic
    <2> HIDE DEF more
    <2>3. QED
      BY <1>1, <1>3, <2>1, <2>2, GoingOnKeepsAnswers
  <1>9. QED
    BY <1>4, <1>5, <1>6, <1>7, <1>8 DEF Parse

\* Before the parser starts there is nothing to answer.
LEMMA LexKeepsAnswerInv ==
  ASSUME LexInv, ParseInv, Lex
  PROVE  AnswerInv'
  <1>1. section' = "goal" /\ index' = 1
    <2>1. phase \in {"lex", "string"} /\ UNCHANGED <<section, index>>
      BY DEF Lex, SkipBlank, LexNewline, OpenString, CloseString, BreakString, Escape,
         StringChar, LexWord, UnexpectedCharacter, EndOfFile, parsed
    <2>2. QED
      BY <2>1 DEF ParseInv, NothingParsed
  <1>2. CASE phase' = "parse"
    <2>1. diagnostics' = {} /\ EndOfFile /\ phase = "lex"
      BY <1>2 DEF Lex, SkipBlank, LexNewline, OpenString, CloseString, BreakString, Escape,
         StringChar, LexWord, UnexpectedCharacter, EndOfFile
    <2>2. LexInv'
      BY LexKeepsLexInv
    <2>3. DOMAIN tokens' \subseteq Nat \ {0}
      <3>1. tokens \in Seq(Tokens) /\ Token("EOF", at, at) \in Tokens
        BY <2>1 DEF LexInv, InOrder, Token, Tokens, TokenKinds
      <3>2. QED
        BY <2>1, <3>1 DEF EndOfFile
    <2>4. QED
      BY <1>1, <1>2, <2>1, <2>3 DEF AnswerInv
  <1>3. CASE phase' # "parse"
    BY <1>1, <1>3 DEF AnswerInv
  <1>4. QED
    BY <1>2, <1>3
-----------------------------------------------------------------------------
(* What the parser accepts.                                                  *)

\* A token that starts a line, and a line that is a declaration and nothing else.
Opens(s) ==
  s \in DOMAIN tokens /\ Kind(s) \notin LineEnds /\ (s = 1 \/ Kind(s - 1) = "Newline")
Whole(s, kind) == Kind(s) = kind /\ Declared(s) /\ Kind(Behind(s)) \in LineEnds

LinesAs(kind) == {s \in DOMAIN tokens : Opens(s) /\ Whole(s, kind)}

\* What IsDocument says of the kinds of lines, said of lines of tokens.
WellFormed ==
  LET goals == LinesAs("GoalKeyword")
      named == LinesAs("CapabilityKeyword")
      checked == LinesAs("CheckKeyword")
  IN /\ \A s \in DOMAIN tokens : Opens(s) => s \in goals \cup named \cup checked
     /\ \E g \in goals : goals = {g} /\ \A s \in DOMAIN tokens : Opens(s) => g <= s
     /\ named # {} /\ checked # {}
     /\ \A c \in named, k \in checked : c < k

\* What the parser has made of the lines that it has passed without complaint.
Accepted ==
  /\ goal \in LinesAs("GoalKeyword") /\ goal < index
  /\ capabilities \subseteq LinesAs("CapabilityKeyword")
  /\ checks \subseteq LinesAs("CheckKeyword")
  /\ \A s \in capabilities \cup checks : goal < s /\ s < index
  /\ \A c \in capabilities, k \in checks : c < k
  /\ \A s \in DOMAIN tokens : Opens(s) /\ s < index =>
       s \in {goal} \cup capabilities \cup checks
  /\ section = "check" <=> checks # {}
  /\ capabilities # {} => "CapabilityKeyword" \in saw
  /\ checks # {} => "CheckKeyword" \in saw

\* A document that the parser complains of is none, and of one that it does not
\* complain of it has kept every line.
FormInv ==
  /\ phase = "parse" /\ section = "goal" => diagnostics = {}
  /\ phase \in {"parse", "done"} /\ section # "goal" =>
       IF diagnostics = {} THEN Accepted ELSE ~WellFormed
  /\ phase = "done" /\ section # "goal" /\ diagnostics = {} =>
       capabilities # {} /\ checks # {} /\ \A s \in DOMAIN tokens : Opens(s) => s < index

\* A line of a document is one of three declarations.
LEMMA EachLineWhole ==
  ASSUME WellFormed, NEW s, Opens(s)
  PROVE  \E kind \in DeclarationKinds : Whole(s, kind)
  BY DEF WellFormed, LinesAs, Opens, DeclarationKinds

\* What has a diagnostic as a declaration is no whole one.
LEMMA WholeSaysNothing ==
  ASSUME Lexed, NEW i \in DOMAIN tokens, Kind(i) \in DeclarationKinds
  PROVE  /\ DeclarationDiagnostics(i) = {} <=> Whole(i, Kind(i))
         /\ Whole(i, Kind(i)) => Declared(i)
  BY DEF DeclarationDiagnostics, Whole

\* All of it is read off the tokens.
LEMMA FormStay ==
  ASSUME UNCHANGED tokens
  PROVE  /\ \A s : Opens(s)' <=> Opens(s)
         /\ \A kind : LinesAs(kind)' = LinesAs(kind)
         /\ WellFormed' <=> WellFormed
  <1>1. \A s : Kind(s)' = Kind(s) /\ Declared(s)' = Declared(s) /\ Behind(s)' = Behind(s)
    BY TokensStay
  <1>2. \A s : Opens(s)' <=> Opens(s)
    BY <1>1 DEF Opens, LineEnds
  <1>3. \A s, kind : Whole(s, kind)' <=> Whole(s, kind)
    BY <1>1 DEF Whole, LineEnds
  <1>4. \A kind : LinesAs(kind)' = LinesAs(kind)
    BY <1>2, <1>3 DEF LinesAs
  <1>5. QED
    BY <1>2, <1>4 DEF WellFormed

\* Where the parser is at: a line's first token or the end of the file, and all
\* lines before it are passed.
LEMMA AtOpening ==
  ASSUME LexInv, ParseInv, AnswerInv, phase = "parse", NEW i, i = Current
  PROVE  /\ Lexed /\ i \in DOMAIN tokens /\ i \in Nat /\ index \in Nat /\ index <= i
         /\ Kind(i) # "EOF" => Opens(i)
         /\ \A s \in DOMAIN tokens : Opens(s) /\ s < i => s < index
         /\ Kind(i) = "EOF" => i = Len(tokens) /\ \A s \in DOMAIN tokens : Opens(s) => s < i
  <1>1. /\ Lexed /\ index \in DOMAIN tokens /\ i \in DOMAIN tokens /\ index <= i
        /\ Kind(i) # "Newline"
    BY AtWork
  <1>2. index \in Nat /\ i \in Nat /\ DOMAIN tokens = 1..Len(tokens) /\ Len(tokens) \in Nat
    BY <1>1 DEF Lexed
  <1>3. Kind(i) # "EOF" => Opens(i)
    BY <1>1, AtLineStart DEF Opens, LineEnds
  <1>4. \A s \in DOMAIN tokens : Opens(s) /\ s < i => s < index
    BY AtLineStart DEF Opens
  <1>5. Kind(i) = "EOF" => i = Len(tokens) /\ \A s \in DOMAIN tokens : Opens(s) => s < i
    <2> SUFFICES ASSUME Kind(i) = "EOF", NEW s \in DOMAIN tokens, Opens(s)
                 PROVE  i = Len(tokens) /\ s < i
      BY <1>1 DEF Lexed
    <2>1. i = Len(tokens) /\ s # Len(tokens)
      BY <1>1 DEF Lexed, Opens, LineEnds
    <2>2. QED
      BY <1>2, <2>1
  <1>6. QED
    BY <1>1, <1>2, <1>3, <1>4, <1>5

\* A line has one first token.
LEMMA OneOpening ==
  ASSUME Lexed, NEW i \in DOMAIN tokens, Opens(i), NEW s, Opens(s), i <= s,
         s < LineBoundary(i)
  PROVE  s = i
  <1> DEFINE b == LineBoundary(i)
  <1>1. /\ b \in DOMAIN tokens /\ i <= b
        /\ \A k \in i..b - 1 : Kind(k) \notin LineEnds
    BY LineBoundaryIs
  <1>2. b \in Nat /\ i \in Nat /\ s \in Nat /\ s < b
    BY <1>1 DEF Lexed, Opens
  <1> HIDE DEF b
  <1>3. s # i => s - 1 \in i..b - 1
    BY <1>1, <1>2
  <1>4. s = 1 => s = i
    BY <1>2 DEF Opens, Lexed
  <1>5. QED
    BY <1>1, <1>3, <1>4 DEF Opens, LineEnds

\* A whole declaration that the parser goes past.
LEMMA PastWhole ==
  ASSUME LexInv, ParseInv, AnswerInv, phase = "parse", NEW i, i = Current,
         Kind(i) \in DeclarationKinds, Declaration(i), UNCHANGED tokens
  PROVE  /\ diagnostics' = {} => diagnostics = {} /\ i \in LinesAs(Kind(i)) /\ Declared(i)
         /\ diagnostics = {} /\ diagnostics' # {} => ~WellFormed
         /\ index' \in Nat /\ index <= i /\ i < index'
         /\ \A s \in DOMAIN tokens : Opens(s) /\ s < index' => s < index \/ s = i
  <1>1. /\ Lexed /\ i \in DOMAIN tokens /\ i \in Nat /\ index \in Nat /\ index <= i
        /\ Opens(i) /\ \A s \in DOMAIN tokens : Opens(s) /\ s < i => s < index
    BY AtOpening DEF DeclarationKinds
  <1>2. /\ diagnostics' = diagnostics \cup DeclarationDiagnostics(i)
        /\ index' = LineBoundary(i)
    BY <1>1, RestOfLineIs DEF Declaration
  <1>3. DeclarationDiagnostics(i) = {} <=> Whole(i, Kind(i))
    BY <1>1, WholeSaysNothing
  <1>4. diagnostics' = {} => diagnostics = {} /\ i \in LinesAs(Kind(i)) /\ Declared(i)
    BY <1>1, <1>2, <1>3 DEF LinesAs, Whole
  <1>5. ASSUME diagnostics = {}, diagnostics' # {}  PROVE ~WellFormed
    <2>1. ~Whole(i, Kind(i))
      BY <1>2, <1>3, <1>5
    <2>2. QED
      BY <1>1, <2>1, EachLineWhole DEF Whole
  <1>6. index' \in Nat /\ i < index'
    <2>1. index' \in DOMAIN tokens /\ i <= index' /\ Kind(index') \in LineEnds
      BY <1>1, <1>2, LineBoundaryIs
    <2>2. QED
      BY <1>1, <2>1 DEF Lexed, Opens
  <1>7. ASSUME NEW s \in DOMAIN tokens, Opens(s), s < index'
        PROVE  s < index \/ s = i
    <2>1. s \in Nat
      BY <1>1 DEF Lexed
    <2>2. CASE s < i
      BY <1>1, <1>7, <2>2
    <2>3. CASE i <= s
      BY <1>1, <1>2, <1>7, <2>3, OneOpening
    <2>4. QED
      BY <1>1, <2>1, <2>2, <2>3
  <1>8. QED
    BY <1>1, <1>4, <1>5, <1>6, <1>7

\* A document has a goal, and a document's first line is its goal.
LEMMA GoalFirst ==
  ASSUME Lexed, WellFormed
  PROVE  \E g \in DOMAIN tokens :
           /\ Opens(g) /\ Kind(g) = "GoalKeyword"
           /\ \A s : Opens(s) => g <= s /\ (Kind(s) = "GoalKeyword" => s = g)
  <1>1. PICK g \in LinesAs("GoalKeyword") :
          /\ LinesAs("GoalKeyword") = {g}
          /\ \A s \in DOMAIN tokens : Opens(s) => g <= s
    BY DEF WellFormed
  <1>2. g \in DOMAIN tokens /\ Opens(g) /\ Kind(g) = "GoalKeyword"
    BY DEF LinesAs, Whole
  <1>3. ASSUME NEW s, Opens(s)
        PROVE  g <= s /\ (Kind(s) = "GoalKeyword" => s = g)
    <2>1. PICK kind \in DeclarationKinds : Whole(s, kind)
      BY <1>3, EachLineWhole
    <2>2. s \in DOMAIN tokens /\ (Kind(s) = "GoalKeyword" => s \in LinesAs("GoalKeyword"))
      BY <1>3, <2>1 DEF Opens, Whole, LinesAs
    <2>3. QED
      BY <1>1, <1>3, <2>2
  <1>4. QED
    BY <1>2, <1>3

LEMMA ParseKeepsFormInv ==
  ASSUME LexInv, ParseInv, AnswerInv, FormInv, Parse
  PROVE  FormInv'
  <1> DEFINE i == Current
  <1>1. phase = "parse" /\ UNCHANGED tokens
    BY DEF Parse, ParseGoal, ParseCapability, ParseCheck, SkipLine, Conclude, lexer
  <1>2. /\ Lexed /\ i \in DOMAIN tokens /\ i \in Nat /\ index \in Nat /\ index <= i
        /\ Kind(i) # "EOF" => Opens(i)
        /\ \A s \in DOMAIN tokens : Opens(s) /\ s < i => s < index
        /\ Kind(i) = "EOF" => i = Len(tokens) /\ \A s \in DOMAIN tokens : Opens(s) => s < i
        /\ DOMAIN tokens \subseteq Nat
    <2>1. i = Current
      OBVIOUS
    <2> HIDE DEF i
    <2>2. QED
      BY <1>1, <2>1, AtOpening DEF Lexed
  <1>3. /\ \A s : Opens(s)' <=> Opens(s)
        /\ \A kind : LinesAs(kind)' = LinesAs(kind)
        /\ WellFormed' <=> WellFormed
    BY <1>1, FormStay
  <1>4. i = Current
    OBVIOUS
  <1> HIDE DEF i
  <1>5. CASE ParseGoal
    <2>1. /\ phase' = "parse" /\ section = "goal" /\ section' = "capability"
          /\ UNCHANGED <<capabilities, checks, saw>>
      BY <1>1, <1>5 DEF ParseGoal
    <2>2. index = 1 /\ capabilities = {} /\ checks = {} /\ diagnostics = {}
      BY <1>1, <2>1 DEF ParseInv, NothingParsed, FormInv
    <2>3. CASE Kind(i) = "GoalKeyword"
      <3>1. Declaration(i) /\ goal' = IF Declared(i) THEN i ELSE Null
        BY <1>4, <1>5, <2>3 DEF ParseGoal
      <3>2. /\ diagnostics' = {} => i \in LinesAs("GoalKeyword") /\ Declared(i)
            /\ diagnostics' # {} => ~WellFormed
            /\ index' \in Nat /\ i < index'
            /\ \A s \in DOMAIN tokens : Opens(s) /\ s < index' => s < index \/ s = i
        BY <1>1, <1>4, <2>2, <2>3, <3>1, PastWhole DEF DeclarationKinds
      <3>3. \A s \in DOMAIN tokens : Opens(s) /\ s < index' => s = i
        <4>1. \A s \in DOMAIN tokens : ~(s < index)
          BY <1>2, <2>2 DEF Lexed
        <4>2. QED
          BY <3>2, <4>1
      <3>4. diagnostics' = {} => Accepted'
        BY <1>1, <1>3, <2>1, <2>2, <3>1, <3>2, <3>3 DEF Accepted
      <3>5. QED
        BY <1>3, <2>1, <3>2, <3>4 DEF FormInv
    <2>4. CASE Kind(i) # "GoalKeyword"
      <3>1. diagnostics' # {}
        BY <1>4, <1>5, <2>4 DEF ParseGoal
      <3>2. ~WellFormed
        <4>1. SUFFICES ASSUME WellFormed  PROVE FALSE
          OBVIOUS
        <4>2. PICK g \in DOMAIN tokens :
                /\ Opens(g) /\ Kind(g) = "GoalKeyword" /\ \A s : Opens(s) => g <= s
          BY <1>2, <4>1, GoalFirst
        <4>3. ~(g < i)
          BY <1>2, <2>2, <4>2 DEF Lexed
        <4>4. g # i
          BY <2>4, <4>2
        <4>5. ~Opens(i)
          BY <1>2, <4>2, <4>3, <4>4
        <4>6. g < i
          BY <1>2, <4>2, <4>5
        <4>7. QED
          BY <4>3, <4>6
      <3>3. QED
        BY <1>3, <2>1, <3>1, <3>2 DEF FormInv
    <2>5. QED
      BY <2>3, <2>4
  <1>6. CASE ParseCapability
    <2>1. /\ section = "capability" /\ phase' = "parse" /\ Kind(i) = "CapabilityKeyword"
          /\ Declaration(i)
          /\ capabilities' = IF Declared(i) THEN capabilities \cup {i} ELSE capabilities
          /\ saw' = saw \cup {"CapabilityKeyword"}
          /\ UNCHANGED <<section, goal, checks>>
      BY <1>1, <1>4, <1>6 DEF ParseCapability
    <2>2. /\ diagnostics' = {} => diagnostics = {} /\ i \in LinesAs("CapabilityKeyword")
                                  /\ Declared(i)
          /\ diagnostics = {} /\ diagnostics' # {} => ~WellFormed
          /\ index' \in Nat /\ index <= i /\ i < index'
          /\ \A s \in DOMAIN tokens : Opens(s) /\ s < index' => s < index \/ s = i
      BY <1>1, <1>4, <2>1, PastWhole DEF DeclarationKinds
    <2>3. diagnostics' # {} => ~WellFormed
      BY <1>1, <2>1, <2>2 DEF FormInv
    <2>4. ASSUME diagnostics' = {}  PROVE Accepted'
      <3>1. Accepted
        BY <1>1, <2>1, <2>2, <2>4 DEF FormInv
      <3>2. checks = {}
        BY <2>1, <3>1 DEF Accepted
      <3>3. /\ goal \in Nat /\ capabilities \subseteq Nat
        BY <1>2, <3>1 DEF Accepted, LinesAs
      <3>4. /\ goal < index' /\ goal < i
            /\ \A s \in capabilities' \cup checks' : goal < s /\ s < index'
        BY <1>2, <2>1, <2>2, <3>1, <3>2, <3>3 DEF Accepted
      <3>5. \A s \in DOMAIN tokens : Opens(s) /\ s < index' =>
              s \in {goal} \cup capabilities' \cup checks
        BY <2>1, <2>2, <2>4, <3>1 DEF Accepted
      <3>6. /\ goal' \in LinesAs("GoalKeyword")
            /\ capabilities' \subseteq LinesAs("CapabilityKeyword") /\ checks' = {}
        BY <2>1, <2>2, <2>4, <3>1, <3>2 DEF Accepted
      <3>7. (section' = "check" <=> checks' # {}) /\ "CapabilityKeyword" \in saw'
        BY <2>1, <3>2
      <3>8. QED
        BY <1>1, <1>3, <2>1, <3>4, <3>5, <3>6, <3>7 DEF Accepted
    <2>5. QED
      BY <1>3, <2>1, <2>3, <2>4 DEF FormInv
  <1>7. CASE ParseCheck
    <2>1. /\ section # "goal" /\ section' = "check" /\ phase' = "parse"
          /\ Kind(i) = "CheckKeyword" /\ Declaration(i)
          /\ checks' = IF Declared(i) THEN checks \cup {i} ELSE checks
          /\ saw' = saw \cup {"CheckKeyword"}
          /\ UNCHANGED <<goal, capabilities>>
      BY <1>1, <1>4, <1>7 DEF ParseCheck
    <2>2. /\ diagnostics' = {} => diagnostics = {} /\ i \in LinesAs("CheckKeyword")
                                  /\ Declared(i)
          /\ diagnostics = {} /\ diagnostics' # {} => ~WellFormed
          /\ index' \in Nat /\ index <= i /\ i < index'
          /\ \A s \in DOMAIN tokens : Opens(s) /\ s < index' => s < index \/ s = i
      BY <1>1, <1>4, <2>1, PastWhole DEF DeclarationKinds
    <2>3. diagnostics' # {} => ~WellFormed
      BY <1>1, <2>1, <2>2 DEF FormInv
    <2>4. ASSUME diagnostics' = {}  PROVE Accepted'
      <3>1. Accepted
        BY <1>1, <2>1, <2>2, <2>4 DEF FormInv
      <3>2. checks' = checks \cup {i}
        BY <2>1, <2>2, <2>4
      <3>3. goal \in Nat /\ capabilities \subseteq Nat /\ checks \subseteq Nat
        BY <1>2, <3>1 DEF Accepted, LinesAs
      <3>4. /\ goal < index' /\ goal < i
            /\ \A s \in capabilities \cup checks' : goal < s /\ s < index'
            /\ \A c \in capabilities : c < i
        BY <1>2, <2>1, <2>2, <3>1, <3>2, <3>3 DEF Accepted
      <3>5. \A c \in capabilities, k \in checks' : c < k
        BY <3>1, <3>2, <3>4 DEF Accepted
      <3>6. \A s \in DOMAIN tokens : Opens(s) /\ s < index' =>
              s \in {goal} \cup capabilities \cup checks'
        BY <2>2, <3>1, <3>2 DEF Accepted
      <3>7. /\ goal \in LinesAs("GoalKeyword")
            /\ capabilities \subseteq LinesAs("CapabilityKeyword")
            /\ checks' \subseteq LinesAs("CheckKeyword")
        BY <2>2, <2>4, <3>1, <3>2 DEF Accepted
      <3>8. /\ section' = "check" <=> checks' # {}
            /\ "CheckKeyword" \in saw' /\ (capabilities # {} => "CapabilityKeyword" \in saw')
        BY <2>1, <3>1, <3>2 DEF Accepted
      <3>9. QED
        BY <1>1, <1>3, <2>1, <3>4, <3>5, <3>6, <3>7, <3>8 DEF Accepted
    <2>5. QED
      BY <1>3, <2>1, <2>3, <2>4 DEF FormInv
  <1>8. CASE SkipLine
    <2>1. /\ section # "goal" /\ phase' = "parse" /\ diagnostics' # {}
          /\ Kind(i) \notin {"CheckKeyword", "EOF"}
          /\ Kind(i) = "CapabilityKeyword" => section = "check"
          /\ UNCHANGED section
      BY <1>1, <1>4, <1>8 DEF SkipLine
    <2>2. ASSUME WellFormed  PROVE FALSE
      <3>1. Opens(i) /\ Accepted
        BY <1>1, <1>2, <2>1, <2>2 DEF FormInv
      <3>2. PICK kind \in DeclarationKinds : Whole(i, kind)
        BY <2>2, <3>1, EachLineWhole
      <3>3. i \in LinesAs(kind) /\ Kind(i) = kind
        BY <1>2, <3>1, <3>2 DEF LinesAs, Whole
      <3>4. CASE kind = "GoalKeyword"
        <4>1. goal \in Nat /\ goal < i /\ Opens(goal) /\ Kind(goal) = "GoalKeyword"
          BY <1>2, <3>1 DEF Accepted, LinesAs, Whole
        <4>2. i = goal
          BY <1>2, <2>2, <3>1, <3>3, <3>4, <4>1, GoalFirst
        <4>3. QED
          BY <4>1, <4>2
      <3>5. CASE kind = "CapabilityKeyword"
        <4>1. PICK k \in checks : k < index /\ k \in LinesAs("CheckKeyword") /\ k \in Nat
          BY <1>2, <2>1, <3>1, <3>3, <3>5 DEF Accepted, LinesAs
        <4>2. i < k
          BY <2>2, <3>3, <3>5, <4>1 DEF WellFormed
        <4>3. QED
          BY <1>2, <4>1, <4>2
      <3>6. QED
        BY <2>1, <3>3, <3>4, <3>5 DEF DeclarationKinds
    <2>3. QED
      BY <1>3, <2>1, <2>2 DEF FormInv
  <1>9. CASE Conclude
    <2>1. /\ section # "goal" /\ phase' = "done" /\ index' = i /\ Kind(i) = "EOF"
          /\ UNCHANGED <<section, goal, capabilities, checks, saw>>
      BY <1>4, <1>9 DEF Conclude
    <2>2. diagnostics \subseteq diagnostics' /\ (diagnostics' = {} <=> diagnostics = {} /\ Missing = {})
      BY <1>9 DEF Conclude
    <2>3. ASSUME diagnostics' = {}
          PROVE  /\ Accepted' /\ capabilities' # {} /\ checks' # {}
                 /\ \A s \in DOMAIN tokens : Opens(s) => s < index'
      <3>1. Accepted /\ Missing = {}
        BY <1>1, <2>1, <2>2, <2>3 DEF FormInv
      <3>2. capabilities # {} /\ checks # {}
        BY <1>1, <2>2, <2>3, <3>1 DEF Missing, ParseInv
      <3>3. goal \in Nat /\ capabilities \cup checks \subseteq Nat
        BY <1>2, <3>1 DEF Accepted, LinesAs
      <3>4. goal < index' /\ \A s \in capabilities \cup checks : s < index'
        BY <1>2, <2>1, <3>1, <3>3 DEF Accepted
      <3>5. \A s \in DOMAIN tokens : Opens(s) => s < index /\ s < index'
        BY <1>2, <2>1
      <3>6. Accepted'
        BY <1>1, <1>3, <2>1, <3>1, <3>4, <3>5 DEF Accepted
      <3>7. QED
        BY <2>1, <3>2, <3>5, <3>6
    <2>4. ASSUME diagnostics' # {}, WellFormed  PROVE FALSE
      <3>1. Accepted /\ Missing # {}
        BY <1>1, <2>1, <2>2, <2>4 DEF FormInv
      <3>2. goal # Null
        <4>1. goal \in Nat
          BY <1>2, <3>1 DEF Accepted, LinesAs
        <4>2. QED
          BY <4>1, NullAssumption
      <3>3. capabilities = {} \/ checks = {}
        BY <3>1, <3>2 DEF Missing, MissingGoal, Accepted
      <3>4. \A s \in DOMAIN tokens : Opens(s) => s \in {goal} \cup capabilities \cup checks
        BY <1>2, <2>1, <3>1 DEF Accepted
      <3>5. \A kind : LinesAs(kind) \subseteq {goal} \cup capabilities \cup checks
        BY <3>4 DEF LinesAs
      <3>6. /\ \A s \in {goal} : Kind(s) = "GoalKeyword"
            /\ \A s \in capabilities : Kind(s) = "CapabilityKeyword"
            /\ \A s \in checks : Kind(s) = "CheckKeyword"
            /\ \A kind : \A s \in LinesAs(kind) : Kind(s) = kind
        BY <3>1 DEF Accepted, LinesAs, Whole
      <3>7. LinesAs("CapabilityKeyword") \subseteq capabilities
            /\ LinesAs("CheckKeyword") \subseteq checks
        BY <3>5, <3>6
      <3>8. QED
        BY <2>4, <3>3, <3>7 DEF WellFormed
    <2>5. QED
      BY <1>1, <1>3, <2>1, <2>3, <2>4 DEF FormInv
  <1>10. QED
    BY <1>5, <1>6, <1>7, <1>8, <1>9 DEF Parse
-----------------------------------------------------------------------------
(* The theorems.                                                             *)

IInv == LexInv /\ ParseInv /\ AnswerInv

LEMMA InitIInv == Init => IInv
  <1> SUFFICES ASSUME Init  PROVE IInv
    OBVIOUS
  <1>1. source \in Seq(Units)
    <2>1. lines # <<>> /\ lines \in Seq(Seq(Units))
      <3>1. lines # <<>> /\ lines \in Seq(Seq(Units \ {"lf"}))
        BY LineAssumption DEF Init
      <3>2. \A i \in DOMAIN lines : lines[i] \in Seq(Units)
        BY <3>1
      <3>3. QED
        BY <3>1, <3>2
    <2>2. PICK break \in [2..Len(lines) -> Breaks] :
            source = FlattenSeq([i \in DOMAIN lines |->
                       IF i = 1 THEN lines[i] ELSE break[i] \o lines[i]])
      BY DEF Init
    <2> DEFINE seqs == [i \in DOMAIN lines |-> IF i = 1 THEN lines[i] ELSE break[i] \o lines[i]]
    <2>3. Breaks \subseteq Seq(Units)
      <3>1. "lf" \in Units /\ "cr" \in Units
        BY DEF Units, LineBreaks
      <3>2. <<"lf">> \in Seq(Units) /\ <<"cr", "lf">> \in Seq(Units)
        BY <3>1
      <3>3. QED
        BY <3>2 DEF Breaks
    <2>4. \A i \in DOMAIN lines : seqs[i] \in Seq(Units)
      <3> TAKE i \in DOMAIN lines
      <3>1. lines[i] \in Seq(Units)
        BY <2>1
      <3>2. i # 1 => break[i] \in Seq(Units)
        BY <2>1, <2>3
      <3>3. i # 1 => break[i] \o lines[i] \in Seq(Units)
        BY <3>1, <3>2, ConcatProperties
      <3>4. QED
        BY <3>1, <3>3
    <2>5. DOMAIN lines = 1..Len(lines) /\ Len(lines) \in Nat \ {0}
      BY <2>1
    <2>6. seqs \in Seq(Seq(Units)) /\ seqs # <<>>
      <3>1. seqs \in [1..Len(lines) -> Seq(Units)]
        BY <2>4, <2>5
      <3>2. 1 \in DOMAIN seqs
        BY <2>5
      <3> HIDE DEF seqs
      <3>3. QED
        BY <2>5, <3>1, <3>2
    <2> HIDE DEF seqs
    <2>7. source = FlattenSeq(seqs)
      BY <2>2 DEF seqs
    <2>8. QED
      BY <2>6, <2>7, FlattenIsSeq
  <1>2. /\ phase = "lex" /\ at = 1 /\ opened = Null /\ tokens = <<>> /\ diagnostics = {}
        /\ section = "goal" /\ NothingParsed
    BY DEF Init, NothingParsed
  <1>3. LexInv
    <2>1. Accounted(tokens, diagnostics, LexedTo) /\ InOrder(tokens, LexedTo)
      BY <1>1, <1>2 DEF Accounted, InOrder, LexedTo
    <2>2. at \in 1..Len(source) + 1
      BY <1>1, <1>2
    <2>3. QED
      BY <1>1, <1>2, <2>1, <2>2 DEF LexInv
  <1>4. ParseInv
    BY <1>2 DEF ParseInv, NothingParsed, NoSilentFailure
  <1>5. AnswerInv
    BY <1>2 DEF AnswerInv
  <1>6. QED
    BY <1>3, <1>4, <1>5 DEF IInv

LEMMA NextIInv == IInv /\ [Next]_vars => IInv'
  <1> SUFFICES ASSUME IInv, [Next]_vars  PROVE IInv'
    OBVIOUS
  <1>1. CASE Lex
    BY <1>1, LexKeepsLexInv, LexKeepsParseInv, LexKeepsAnswerInv DEF IInv
  <1>2. CASE Parse
    BY <1>2, ParseKeepsLexInv, ParseKeepsParseInv, ParseKeepsAnswerInv DEF IInv
  <1>3. CASE UNCHANGED vars
    <2>1. /\ UNCHANGED <<lines, source, phase, at, opened, tokens>>
          /\ UNCHANGED <<section, index, goal, capabilities, checks, saw, diagnostics, ast>>
      BY <1>3 DEF vars, input, lexer, parsed
    <2>2. LexedTo' = LexedTo
      BY <2>1 DEF LexedTo
    <2>3. LexInv'
      BY <2>1, <2>2 DEF IInv, LexInv, Accounted
    <2>4. \A i, kind : DeclaredAs(i, kind)' <=> DeclaredAs(i, kind)
      BY <2>1, DeclaredStay
    <2>5. ParseInv'
      BY <2>1, <2>4 DEF IInv, ParseInv, NothingParsed, NoSilentFailure
    <2>6. /\ \A k : Kind(k)' = Kind(k)
          /\ \A k : LineOf(k)' = LineOf(k)
      BY <2>1, TokensStay DEF LineOf
    <2>7. \A k : (Answered(k)' <=> Answered(k)) /\ (Passed(k)' <=> Passed(k))
      BY <2>1, <2>6 DEF Answered, Said, Passed, Parsed
    <2>8. AnswerInv'
      BY <2>1, <2>6, <2>7 DEF IInv, AnswerInv
    <2>9. QED
      BY <2>3, <2>5, <2>8 DEF IInv
  <1>4. QED
    BY <1>1, <1>2, <1>3 DEF Next

LEMMA SpecIInv == Spec => []IInv
  BY InitIInv, NextIInv, PTL DEF Spec

LEMMA LsTypes == IInv => TypeOK
  <1> SUFFICES ASSUME IInv  PROVE TypeOK
    OBVIOUS
  <1>1. /\ phase \in {"lex", "string", "parse", "done"} /\ at \in 1..Len(source) + 1
        /\ diagnostics \subseteq Diagnostics /\ section \in {"goal", "capability", "check"}
        /\ phase \in {"parse", "done"} => index \in DOMAIN tokens
    BY DEF IInv, LexInv, ParseInv
  <1>2. tokens \in Seq(Tokens)
    <2>1. CASE phase \in {"lex", "string"}
      BY <2>1 DEF IInv, LexInv, InOrder
    <2>2. CASE phase \in {"parse", "done"}
      BY <2>2, LexInvLexed DEF IInv, Lexed
    <2>3. QED
      BY <1>1, <2>1, <2>2
  <1>3. opened \in DOMAIN source \cup {Null}
    <2>1. source \in Seq(Units) /\ (phase # "string" => opened = Null)
          /\ (phase = "string" => opened \in 1..at - 1)
      BY DEF IInv, LexInv
    <2>2. DOMAIN source = 1..Len(source) /\ Len(source) \in Nat
      BY <2>1
    <2>3. QED
      BY <1>1, <2>1, <2>2
  <1>4. goal \in DOMAIN tokens \cup {Null} /\ capabilities \cup checks \subseteq DOMAIN tokens
    BY DEF IInv, ParseInv, DeclaredAs
  <1>5. QED
    BY <1>1, <1>2, <1>3, <1>4 DEF TypeOK

\* The lexer and the parser (compiler/src/parser) step past nothing that they
\* read: every index is that of a unit or a token that is there.
THEOREM LsTypeCorrect == Spec => []TypeOK
  BY SpecIInv, LsTypes, PTL

LEMMA UnitsAreLexed == IInv => EveryUnitIsLexed
  <1> SUFFICES ASSUME IInv, phase \in {"parse", "done"}  PROVE EveryUnitIsLexed
    BY DEF EveryUnitIsLexed
  <1>1. /\ source \in Seq(Units) /\ LexedTo = Len(source) + 1
        /\ Accounted(tokens, diagnostics, LexedTo)
    BY DEF IInv, LexInv, LexedTo
  <1>2. \A i \in DOMAIN source :
          \/ \E t \in DOMAIN tokens : Under(i, tokens[t])
          \/ source[i] = "blank"
          \/ \E d \in diagnostics : Under(i, d)
    BY <1>1 DEF Accounted
  <1>3. Lexed
    BY LexInvLexed DEF IInv
  <1>4. \A t \in DOMAIN tokens \ {1} : tokens[t - 1].to <= tokens[t].from
    <2> TAKE t \in DOMAIN tokens \ {1}
    <2>1. t - 1 \in DOMAIN tokens /\ t - 1 < t
      BY <1>3 DEF Lexed
    <2>2. QED
      BY <1>3, <2>1 DEF Lexed
  <1>5. QED
    BY <1>2, <1>4 DEF EveryUnitIsLexed

\* Lexing loses nothing: of every document each unit is a blank, in a token or
\* under a diagnostic, and the tokens come in the document's order.
THEOREM EveryUnitIsAccounted == Spec => []EveryUnitIsLexed
  BY SpecIInv, UnitsAreLexed, PTL

\* Whatever the document is, the parser returns a syntax tree and no diagnostics,
\* or diagnostics and no syntax tree.
THEOREM NoDocumentFailsSilently == Spec => []NoSilentFailure
  <1>1. IInv => NoSilentFailure
    BY DEF IInv, ParseInv
  <1>2. QED
    BY <1>1, SpecIInv, PTL

LEMMA LinesAreAnswered == IInv => OneAnswerPerLine
  <1> SUFFICES ASSUME IInv, phase = "done", section # "goal",
                      NEW i \in DOMAIN tokens, Kind(i) \notin LineEnds
               PROVE  /\ Cardinality(Said(i)) <= 1
                      /\ Said(i) = {} => Parsed \cap LineOf(i) # {}
    BY DEF OneAnswerPerLine, Said, Counted
  <1>1. Lexed /\ index = Len(tokens)
    BY LexInvLexed DEF IInv, AnswerInv
  <1>2. i < index
    BY <1>1 DEF Lexed, LineEnds
  <1>3. Answered(i)
    BY <1>2 DEF IInv, AnswerInv
  <1>4. CASE Said(i) = {}
    BY <1>3, <1>4, FS_EmptySet DEF Answered
  <1>5. CASE Said(i) # {}
    <2>1. PICK d : Said(i) = {d}
      BY <1>3, <1>5 DEF Answered
    <2>2. Cardinality({d}) = 1
      BY FS_Singleton
    <2>3. QED
      BY <1>5, <2>1, <2>2
  <1>6. QED
    BY <1>4, <1>5

\* The parser recovers line by line, in every document: each line that is not
\* blank gives a declaration or one diagnostic, and never two.
THEOREM OneAnswerForEachLine == Spec => []OneAnswerPerLine
  BY SpecIInv, LinesAreAnswered, PTL

-----------------------------------------------------------------------------
(* Neither the lexer nor the parser stands still.                            *)

MovesOn ==
  \/ phase = "lex" /\ phase' \in {"lex", "string"} /\ at < at'
  \/ phase = "string" /\ phase' = "string" /\ at < at'
  \/ phase = "string" /\ phase' = "lex" /\ at <= at'
  \/ phase = "lex" /\ phase' \in {"parse", "done"}
  \/ /\ phase = "parse" /\ phase' = "parse"
     /\ section = "goal" /\ section' # "goal" /\ index <= index'
  \/ /\ phase = "parse" /\ phase' = "parse"
     /\ section # "goal" /\ section' # "goal" /\ index <= Current /\ Current < index'
  \/ phase = "parse" /\ phase' = "done"

LEMMA LexMovesOn ==
  ASSUME LexInv, Lex
  PROVE  MovesOn
  <1>1. at \in Nat /\ at + 1 \in Nat /\ at < at + 1 /\ at < at + 2 /\ at <= at
    BY DEF LexInv
  <1>2. CASE SkipBlank \/ OpenString \/ CloseString \/ Escape \/ StringChar \/ UnexpectedCharacter
    BY <1>1, <1>2 DEF SkipBlank, OpenString, CloseString, Escape, StringChar,
       UnexpectedCharacter, MovesOn
  <1>3. CASE LexNewline
    <2>1. BreakAt(at) \in {1, 2}
      BY <1>3 DEF LexNewline, BreakAt
    <2>2. at < at + BreakAt(at)
      BY <1>1, <2>1
    <2>3. QED
      BY <1>3, <2>2 DEF LexNewline, MovesOn
  <1>4. CASE BreakString
    BY <1>1, <1>4 DEF BreakString, BehindPiece, MovesOn
  <1>5. CASE LexWord
    <2>1. source \in Seq(Units) /\ Unit \in Letters /\ Unit # Null /\ at \in 1..Len(source) + 1
      BY <1>5, NullAssumption DEF LexInv, LexWord, Letters, Units, WordParts
    <2>2. at \in 1..Len(source)
      BY <2>1 DEF Unit, Ended
    <2>3. WordEnd \in at + 1..Len(source) + 1
      BY <2>1, <2>2, WordEnds
    <2>4. at < WordEnd
      BY <1>1, <2>3
    <2>5. QED
      BY <1>5, <2>4 DEF LexWord, MovesOn
  <1>6. CASE EndOfFile
    BY <1>6 DEF EndOfFile, MovesOn
  <1>7. QED
    BY <1>2, <1>3, <1>4, <1>5, <1>6 DEF Lex

\* A declaration takes at least its keyword.
LEMMA DeclarationMovesOn ==
  ASSUME Lexed, NEW i \in DOMAIN tokens, Kind(i) \in DeclarationKinds
  PROVE  i < RestOfLine(i)
  <1> DEFINE b == LineBoundary(i)
  <1>1. b \in DOMAIN tokens /\ i <= b /\ Kind(b) \in LineEnds
    BY LineBoundaryIs
  <1>2. i \in Nat /\ b \in Nat /\ i # b
    BY <1>1 DEF Lexed, DeclarationKinds, LineEnds
  <1>3. QED
    BY <1>1, <1>2, RestOfLineIs

LEMMA ParseMovesOn ==
  ASSUME LexInv, ParseInv, Parse
  PROVE  MovesOn
  <1> DEFINE i == Current
  <1>1. phase = "parse"
    BY DEF Parse, ParseGoal, ParseCapability, ParseCheck, SkipLine, Conclude
  <1>2. Lexed /\ index \in DOMAIN tokens /\ i \in DOMAIN tokens /\ index <= i /\ Kind(i) # "Newline"
    BY <1>1, AtWork
  <1>3. index \in Nat /\ i \in Nat
    BY <1>2 DEF Lexed
  <1> HIDE DEF i
  <1>4. CASE ParseGoal
    <2>1. index <= index'
      <3>1. CASE Kind(i) = "GoalKeyword"
        <4>1. i < RestOfLine(i) /\ RestOfLine(i) \in Nat
          <5>1. RestOfLine(i) = LineBoundary(i) /\ LineBoundary(i) \in DOMAIN tokens
            BY <1>2, <3>1, RestOfLineIs, LineBoundaryIs DEF DeclarationKinds
          <5>2. RestOfLine(i) \in Nat
            BY <1>2, <5>1 DEF Lexed
          <5>3. QED
            BY <1>2, <3>1, <5>2, DeclarationMovesOn DEF DeclarationKinds
        <4>2. index' = RestOfLine(i)
          BY <1>4, <3>1 DEF ParseGoal, Declaration, i
        <4>3. QED
          BY <1>2, <1>3, <4>1, <4>2
      <3>2. CASE Kind(i) # "GoalKeyword"
        BY <1>2, <1>4, <3>2 DEF ParseGoal, i
      <3>3. QED
        BY <3>1, <3>2
    <2>2. QED
      BY <1>4, <2>1 DEF ParseGoal, MovesOn
  <1>5. CASE ParseCapability \/ ParseCheck
    <2>1. Kind(i) \in DeclarationKinds /\ index' = RestOfLine(i)
      BY <1>5 DEF ParseCapability, ParseCheck, Declaration, DeclarationKinds, i
    <2>2. i < index'
      BY <1>2, <2>1, DeclarationMovesOn
    <2>3. /\ phase' = "parse" /\ section # "goal" /\ section' # "goal"
      BY <1>1, <1>5 DEF ParseCapability, ParseCheck
    <2>4. QED
      BY <1>1, <1>2, <2>2, <2>3 DEF MovesOn, i
  <1>6. CASE SkipLine
    <2> DEFINE b == LineBoundary(i)
    <2>1. b \in DOMAIN tokens /\ i <= b /\ Kind(b) \in LineEnds
      BY <1>2, LineBoundaryIs
    <2>2. Kind(i) # "EOF" /\ index' = PastLine(i)
      BY <1>6 DEF SkipLine, i
    <2>3. b \in Nat /\ i # b
      BY <1>2, <2>1, <2>2 DEF Lexed, LineEnds
    <2> HIDE DEF b
    <2>4. index' = b \/ index' = b + 1
      BY <2>2 DEF PastLine, b
    <2>5. i < index'
      BY <1>3, <2>1, <2>3, <2>4
    <2>6. QED
      BY <1>1, <1>2, <1>6, <2>5 DEF SkipLine, MovesOn, i
  <1>7. CASE Conclude
    BY <1>1, <1>7 DEF Conclude, MovesOn
  <1>8. QED
    BY <1>4, <1>5, <1>6, <1>7 DEF Parse

\* Every document is gone through: each step of the lexer takes at least a unit,
\* but for the one that gives an open string up, and each iteration of the parser's
\* loop at least a token.  The guard at its end (parser.ts:127) is never needed.
THEOREM NoStepStandsStill == Spec => [][MovesOn]_vars
  <1>1. IInv /\ [Next]_vars => [MovesOn]_vars
    BY LexMovesOn, ParseMovesOn DEF IInv, Next
  <1>2. QED
    BY <1>1, SpecIInv, PTL DEF Spec

\* Where the goal is not declared, a diagnostic says why.
GoalIsAnswered == section # "goal" => ~MissingGoal

LEMMA NextGoalIsAnswered ==
  ASSUME IInv, GoalIsAnswered, [Next]_vars
  PROVE  GoalIsAnswered'
  <1>1. CASE Lex \/ UNCHANGED vars
    <2>1. section' = section /\ goal' = goal /\ diagnostics \subseteq diagnostics'
      BY <1>1 DEF Lex, SkipBlank, LexNewline, OpenString, CloseString, BreakString, Escape,
         StringChar, LexWord, UnexpectedCharacter, EndOfFile, Report, vars, parsed
    <2>2. QED
      BY <2>1 DEF GoalIsAnswered, MissingGoal
  <1>2. CASE ParseGoal
    <2> DEFINE i == Current
    <2>1. Lexed /\ i \in DOMAIN tokens
      BY <1>2, AtWork DEF ParseGoal, IInv
    <2>2. i # Null
      BY <2>1, NullAssumption DEF Lexed
    <2>3. CASE Kind(i) = "GoalKeyword" /\ Declared(i)
      BY <1>2, <2>2, <2>3 DEF ParseGoal, GoalIsAnswered, MissingGoal
    <2>4. CASE Kind(i) = "GoalKeyword" /\ ~Declared(i)
      <3>1. DiagnosticAt("PARSE_EXPECTED_TOKEN", "GoalKeyword", Behind(i)) \in diagnostics'
        BY <1>2, <2>4 DEF ParseGoal, Declaration, DeclarationDiagnostics
      <3>2. QED
        BY <3>1 DEF GoalIsAnswered, MissingGoal, DiagnosticAt, Diagnostic
    <2>5. CASE Kind(i) # "GoalKeyword"
      <3>1. DiagnosticAt("PARSE_EXPECTED_DECLARATION", "GoalKeyword", i) \in diagnostics'
        BY <1>2, <2>5 DEF ParseGoal
      <3>2. QED
        BY <3>1 DEF GoalIsAnswered, MissingGoal, DiagnosticAt, Diagnostic
    <2>6. QED
      BY <2>3, <2>4, <2>5
  <1>3. CASE ParseCapability \/ ParseCheck \/ SkipLine \/ Conclude
    <2>1. section # "goal" /\ goal' = goal /\ diagnostics \subseteq diagnostics'
      BY <1>3 DEF ParseCapability, ParseCheck, SkipLine, Conclude, Declaration
    <2>2. QED
      BY <2>1 DEF GoalIsAnswered, MissingGoal
  <1>4. QED
    BY <1>1, <1>2, <1>3 DEF Next, Parse

\* The parser's last check for a goal (parser.ts:145) never reports one: a goal that
\* is not declared has had its diagnostic before.
THEOREM NoGoalIsMissing == Spec => []GoalIsAnswered
  <1>1. Init => GoalIsAnswered
    BY DEF Init, GoalIsAnswered
  <1>2. IInv /\ GoalIsAnswered /\ [Next]_vars => GoalIsAnswered'
    BY NextGoalIsAnswered
  <1>3. QED
    BY <1>1, <1>2, SpecIInv, PTL DEF Spec
=============================================================================
