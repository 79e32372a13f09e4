--------------------------- MODULE LsLanguageProofs ---------------------------
(* The automaton of LsDocument accepts the documents that LsGrammar says the *)
(* parser takes.                                                             *)
EXTENDS LsDocumentProofs

-----------------------------------------------------------------------------
(* Which backslashes escape.                                                 *)

\* The function that Escapes is defined by is there.
LEMMA EscapesExist ==
  ASSUME NEW s \in Seq(Units), NEW m \in Nat
  PROVE  \E f \in [0..m -> BOOLEAN] :
           \A i \in 0..m : f[i] <=> (i # 0 /\ s[i] = "backslash" /\ ~f[i - 1])
  <1> DEFINE Fits(f, n) ==
               \A i \in 0..n : f[i] <=> (i # 0 /\ s[i] = "backslash" /\ ~f[i - 1])
             T == {n \in Nat : ~\E f \in [0..n -> BOOLEAN] : Fits(f, n)}
  <1> SUFFICES ASSUME T # {}  PROVE FALSE
    OBVIOUS
  <1>1. PICK n \in T : \A y \in T : n <= y
    <2>1. T \in SUBSET Nat /\ T # {}
      OBVIOUS
    <2> HIDE DEF T
    <2>2. QED
      BY <2>1, Smallest
  <1>2. n # 0
    <2> DEFINE f == [i \in 0..0 |-> FALSE]
    <2>1. f \in [0..0 -> BOOLEAN] /\ ~f[0]
      OBVIOUS
    <2> HIDE DEF f
    <2>2. Fits(f, 0)
      BY <2>1
    <2> HIDE DEF Fits
    <2>3. QED
      BY <2>1, <2>2
  <1>3. n \in Nat /\ n - 1 \in Nat
    BY <1>1, <1>2
  <1>4. PICK f \in [0..n - 1 -> BOOLEAN] : Fits(f, n - 1)
    <2>1. n - 1 \notin T
      <3> HIDE DEF T
      <3>1. QED
        BY <1>1, <1>3
    <2>2. QED
      BY <1>3, <2>1
  <1> DEFINE last == s[n] = "backslash" /\ ~f[n - 1]
             g == [i \in 0..n |-> IF i = n THEN last ELSE f[i]]
  <1>5. g \in [0..n -> BOOLEAN]
    <2>1. last \in BOOLEAN
      OBVIOUS
    <2>2. \A i \in 0..n : i # n => i \in 0..n - 1
      BY <1>3
    <2> HIDE DEF last
    <2>3. \A i \in 0..n : (IF i = n THEN last ELSE f[i]) \in BOOLEAN
      BY <2>1, <2>2
    <2>4. QED
      BY <2>3
  <1>6. /\ g[n] <=> last
        /\ \A i \in 0..n - 1 : g[i] <=> f[i]
    BY <1>3
  <1> HIDE DEF g
  <1>7. Fits(g, n)
    <2> SUFFICES ASSUME NEW i \in 0..n
                 PROVE  g[i] <=> (i # 0 /\ s[i] = "backslash" /\ ~g[i - 1])
      OBVIOUS
    <2>1. i # 0 => i - 1 \in 0..n - 1
      BY <1>3
    <2>2. i # 0 => (g[i - 1] <=> f[i - 1])
      BY <1>6, <2>1
    <2>3. CASE i = n
      BY <1>2, <1>6, <2>2, <2>3
    <2>4. CASE i # n
      <3>1. i \in 0..n - 1
        BY <1>3, <2>4
      <3>2. g[i] <=> f[i]
        BY <1>6, <3>1
      <3>3. f[i] <=> (i # 0 /\ s[i] = "backslash" /\ ~f[i - 1])
        BY <1>4, <3>1
      <3>4. QED
        BY <2>2, <3>2, <3>3
    <2>5. QED
      BY <2>3, <2>4
  <1>8. QED
    BY <1>1, <1>5, <1>7

\* A backslash escapes, unless it is escaped itself.
LEMMA EscapesAre ==
  ASSUME NEW s \in Seq(Units)
  PROVE  /\ ~Escapes(s)[0]
         /\ \A i \in 1..Len(s) :
              Escapes(s)[i] <=> (s[i] = "backslash" /\ ~Escapes(s)[i - 1])
  <1> DEFINE n == Len(s)
             Fits(f) == f = [i \in 0..n |-> i # 0 /\ s[i] = "backslash" /\ ~f[i - 1]]
             esc == CHOOSE f : Fits(f)
  <1>1. n \in Nat
    OBVIOUS
  <1>2. Escapes(s) = esc
    BY DEF Escapes
  <1>3. PICK f \in [0..n -> BOOLEAN] :
          \A i \in 0..n : f[i] <=> (i # 0 /\ s[i] = "backslash" /\ ~f[i - 1])
    BY <1>1, EscapesExist
  <1>4. Fits(f)
    <2>1. \A i \in 0..n : f[i] = (i # 0 /\ s[i] = "backslash" /\ ~f[i - 1])
      BY <1>3
    <2>2. QED
      BY <2>1
  <1>5. Fits(esc)
    BY <1>4
  <1> HIDE DEF esc
  <1>6. \A i \in 0..n : esc[i] <=> (i # 0 /\ s[i] = "backslash" /\ ~esc[i - 1])
    BY <1>5
  <1>7. /\ ~esc[0]
        /\ \A i \in 1..n : esc[i] <=> (s[i] = "backslash" /\ ~esc[i - 1])
    <2>1. 0 \in 0..n /\ \A i \in 1..n : i \in 0..n /\ i # 0
      BY <1>1
    <2>2. QED
      BY <1>6, <2>1
  <1>8. QED
    BY <1>2, <1>7

\* Whether a backslash escapes depends on what comes before it only.
LEMMA EscapesAgree ==
  ASSUME NEW s \in Seq(Units), NEW t \in Seq(Units), NEW n \in Nat,
         n <= Len(s), n <= Len(t), \A i \in 1..n : s[i] = t[i]
  PROVE  \A i \in 0..n : Escapes(s)[i] <=> Escapes(t)[i]
  <1> DEFINE same(i) == Escapes(s)[i] <=> Escapes(t)[i]
             T == {i \in 0..n : ~same(i)}
  <1> SUFFICES ASSUME T # {}  PROVE FALSE
    OBVIOUS
  <1>1. PICK x \in T : \A y \in T : x <= y
    <2>1. T \in SUBSET Nat
      OBVIOUS
    <2> HIDE DEF T
    <2>2. QED
      BY <2>1, Smallest
  <1>2. x \in 0..n /\ ~same(x)
    BY <1>1
  <1>3. x # 0
    <2>1. same(0)
      BY EscapesAre
    <2>2. QED
      BY <1>2, <2>1
  <1>4. x \in 1..n /\ x - 1 \in 0..n /\ ~(x <= x - 1)
    BY <1>2, <1>3
  <1>5. same(x - 1)
    <2>1. x - 1 \notin T
      <3> HIDE DEF T
      <3>1. QED
        BY <1>1, <1>4
    <2> HIDE DEF same
    <2>2. QED
      BY <1>4, <2>1
  <1>6. x \in 1..Len(s) /\ x \in 1..Len(t)
    BY <1>4
  <1>7. /\ Escapes(s)[x] <=> (s[x] = "backslash" /\ ~Escapes(s)[x - 1])
        /\ Escapes(t)[x] <=> (t[x] = "backslash" /\ ~Escapes(t)[x - 1])
    BY <1>6, EscapesAre
  <1>8. s[x] = t[x]
    BY <1>4
  <1>9. QED
    BY <1>2, <1>5, <1>7, <1>8

-----------------------------------------------------------------------------
(* Strings.                                                                  *)

\* A string that is not closed yet, as the lexer has it between two iterations.
StringSoFar(s) ==
  LET esc == Escapes(s)
  IN /\ s \in Seq(Units) /\ Len(s) >= 1 /\ s[1] = "quote" /\ ~esc[Len(s)]
     /\ \A i \in 2..Len(s) :
          /\ s[i] \notin LineBreaks
          /\ s[i] = "quote" => esc[i - 1]
          /\ esc[i - 1] => s[i] \in Escapable

Prefix(s, t) == Len(s) <= Len(t) /\ \A i \in 1..Len(s) : s[i] = t[i]

LEMMA StringStarts ==
  ASSUME NEW s \in Seq(Units), Len(s) = 1, s[1] = "quote"
  PROVE  StringSoFar(s)
  <1>1. ~Escapes(s)[1]
    BY EscapesAre
  <1>2. QED
    BY <1>1 DEF StringSoFar

\* One more unit that is neither a quote nor a backslash nor a break.
LEMMA StringGoesOn ==
  ASSUME NEW s, StringSoFar(s), NEW t \in Seq(Units), Prefix(s, t), Len(t) = Len(s) + 1,
         t[Len(t)] \notin LineBreaks \cup {"quote", "backslash"}
  PROVE  StringSoFar(t)
  <1> DEFINE n == Len(s)
             a == Escapes(s)
             b == Escapes(t)
  <1>1. s \in Seq(Units) /\ n \in Nat \ {0}
    BY DEF StringSoFar
  <1>2. \A i \in 0..n : a[i] <=> b[i]
    BY <1>1, EscapesAgree DEF Prefix
  <1>3. b[n + 1] <=> (t[n + 1] = "backslash" /\ ~b[n])
    BY <1>1, EscapesAre
  <1>4. ~a[n] /\ \A i \in 2..n : /\ s[i] \notin LineBreaks /\ (s[i] = "quote" => a[i - 1])
                                 /\ (a[i - 1] => s[i] \in Escapable)
    BY DEF StringSoFar
  <1> HIDE DEF a, b
  <1>5. ~b[n] /\ ~b[n + 1]
    BY <1>1, <1>2, <1>3, <1>4
  <1>6. ASSUME NEW i \in 2..n + 1
        PROVE  /\ t[i] \notin LineBreaks /\ (t[i] = "quote" => b[i - 1])
               /\ (b[i - 1] => t[i] \in Escapable)
    <2>1. CASE i = n + 1
      BY <1>1, <1>5, <2>1
    <2>2. CASE i # n + 1
      <3>1. i \in 2..n /\ i - 1 \in 0..n
        BY <1>1, <2>2
      <3>2. t[i] = s[i] /\ (a[i - 1] <=> b[i - 1])
        BY <1>1, <1>2, <3>1 DEF Prefix
      <3>3. QED
        BY <1>4, <3>1, <3>2
    <2>3. QED
      BY <2>1, <2>2
  <1>7. t[1] = "quote"
    BY <1>1 DEF Prefix, StringSoFar
  <1>8. QED
    BY <1>1, <1>5, <1>6, <1>7 DEF StringSoFar, b

\* A backslash and what it may escape.
LEMMA StringEscapes ==
  ASSUME NEW s, StringSoFar(s), NEW t \in Seq(Units), Prefix(s, t), Len(t) = Len(s) + 2,
         t[Len(s) + 1] = "backslash", t[Len(s) + 2] \in Escapable
  PROVE  StringSoFar(t)
  <1> DEFINE n == Len(s)
             a == Escapes(s)
             b == Escapes(t)
  <1>1. s \in Seq(Units) /\ n \in Nat \ {0}
    BY DEF StringSoFar
  <1>2. \A i \in 0..n : a[i] <=> b[i]
    BY <1>1, EscapesAgree DEF Prefix
  <1>3. /\ b[n + 1] <=> (t[n + 1] = "backslash" /\ ~b[n])
        /\ b[n + 2] <=> (t[n + 2] = "backslash" /\ ~b[n + 1])
    <2>1. n + 1 \in 1..Len(t) /\ n + 2 \in 1..Len(t) /\ n + 1 - 1 = n /\ n + 2 - 1 = n + 1
      BY <1>1
    <2>2. QED
      BY <2>1, EscapesAre
  <1>4. ~a[n] /\ \A i \in 2..n : /\ s[i] \notin LineBreaks /\ (s[i] = "quote" => a[i - 1])
                                 /\ (a[i - 1] => s[i] \in Escapable)
    BY DEF StringSoFar
  <1> HIDE DEF a, b
  <1>5. ~b[n] /\ b[n + 1] /\ ~b[n + 2]
    BY <1>1, <1>2, <1>3, <1>4
  <1>6. ASSUME NEW i \in 2..n + 2
        PROVE  /\ t[i] \notin LineBreaks /\ (t[i] = "quote" => b[i - 1])
               /\ (b[i - 1] => t[i] \in Escapable)
    <2>1. CASE i = n + 2
      <3>1. i - 1 = n + 1
        BY <1>1, <2>1
      <3>2. QED
        BY <1>5, <2>1, <3>1 DEF Escapable, LineBreaks
    <2>2. CASE i = n + 1
      <3>1. i - 1 = n
        BY <1>1, <2>2
      <3>2. QED
        BY <1>5, <2>2, <3>1 DEF LineBreaks
    <2>3. CASE i \notin {n + 1, n + 2}
      <3>1. i \in 2..n /\ i - 1 \in 0..n
        BY <1>1, <2>3
      <3>2. t[i] = s[i] /\ (a[i - 1] <=> b[i - 1])
        BY <1>1, <1>2, <3>1 DEF Prefix
      <3>3. QED
        BY <1>4, <3>1, <3>2
    <2>4. QED
      BY <2>1, <2>2, <2>3
  <1>7. t[1] = "quote"
    BY <1>1 DEF Prefix, StringSoFar
  <1>8. QED
    BY <1>1, <1>5, <1>6, <1>7 DEF StringSoFar, b

\* The quote that closes it.
LEMMA StringCloses ==
  ASSUME NEW s, StringSoFar(s), NEW t \in Seq(Units), Prefix(s, t), Len(t) = Len(s) + 1,
         t[Len(t)] = "quote"
  PROVE  IsString(t)
  <1> DEFINE n == Len(s)
             a == Escapes(s)
             b == Escapes(t)
  <1>1. s \in Seq(Units) /\ n \in Nat \ {0}
    BY DEF StringSoFar
  <1>2. \A i \in 0..n : a[i] <=> b[i]
    BY <1>1, EscapesAgree DEF Prefix
  <1>3. ~a[n] /\ \A i \in 2..n : /\ s[i] \notin LineBreaks /\ (s[i] = "quote" => a[i - 1])
                                 /\ (a[i - 1] => s[i] \in Escapable)
    BY DEF StringSoFar
  <1> HIDE DEF a, b
  <1>4. ~b[n]
    BY <1>1, <1>2, <1>3
  <1>5. ASSUME NEW i \in 2..n
        PROVE  /\ t[i] \notin LineBreaks /\ (t[i] = "quote" => b[i - 1])
               /\ (b[i - 1] => t[i] \in Escapable)
    <2>1. i \in 2..n /\ i - 1 \in 0..n
      BY <1>1, <1>5
    <2>2. t[i] = s[i] /\ (a[i - 1] <=> b[i - 1])
      BY <1>1, <1>2, <2>1 DEF Prefix
    <2>3. QED
      BY <1>3, <2>1, <2>2
  <1>6. t[1] = "quote" /\ Len(t) >= 2 /\ Len(t) - 1 = n
    BY <1>1 DEF Prefix, StringSoFar
  <1>7. QED
    BY <1>4, <1>5, <1>6 DEF IsString, b

\* A string does not end before it is closed, and goes on with no break and no
\* escape that is none.
LEMMA StringNotBroken ==
  ASSUME NEW s, StringSoFar(s), NEW t \in Seq(Units), IsString(t),
         \A i \in 1..Len(s) : i <= Len(t) => s[i] = t[i], NEW n, n = Len(s)
  PROVE  /\ n < Len(t) /\ t[n + 1] \notin LineBreaks
         /\ t[n + 1] = "backslash" => n + 2 < Len(t) /\ t[n + 2] \in Escapable
  <1> DEFINE m == Len(t)
             a == Escapes(s)
             b == Escapes(t)
  <1>1. s \in Seq(Units) /\ n \in Nat \ {0} /\ m \in Nat /\ m >= 2
    BY DEF StringSoFar, IsString
  <1>2. /\ t[m] = "quote" /\ ~b[m - 1]
        /\ \A i \in 2..m - 1 : t[i] \notin LineBreaks /\ (b[i - 1] => t[i] \in Escapable)
    BY DEF IsString
  <1>3. ~a[n] /\ \A i \in 2..n : s[i] = "quote" => a[i - 1]
    BY DEF StringSoFar
  <1>4. \A l \in Nat : l <= n /\ l <= m => \A i \in 0..l : a[i] <=> b[i]
    <2> SUFFICES ASSUME NEW l \in Nat, l <= n, l <= m  PROVE \A i \in 0..l : a[i] <=> b[i]
      OBVIOUS
    <2>1. \A i \in 1..l : s[i] = t[i]
      BY <1>1
    <2>2. QED
      BY <1>1, <2>1, EscapesAgree
  <1> HIDE DEF a, b
  <1>5. n < m
    <2> SUFFICES ASSUME m <= n  PROVE FALSE
      BY <1>1
    <2>1. m \in 2..n /\ s[m] = "quote"
      BY <1>1, <1>2
    <2>2. a[m - 1]
      BY <1>3, <2>1
    <2>3. a[m - 1] <=> b[m - 1]
      BY <1>1, <1>4
    <2>4. QED
      BY <1>2, <2>2, <2>3
  <1>6. ~b[n]
    BY <1>1, <1>3, <1>4, <1>5
  <1>7. t[n + 1] \notin LineBreaks
    <2>1. n + 1 = m \/ n + 1 \in 2..m - 1
      BY <1>1, <1>5
    <2>2. QED
      BY <1>2, <2>1 DEF LineBreaks
  <1>8. ASSUME t[n + 1] = "backslash"
        PROVE  n + 2 < m /\ t[n + 2] \in Escapable
    <2>1. b[n + 1]
      <3>1. n + 1 \in 1..m /\ n + 1 - 1 = n
        BY <1>1, <1>5
      <3>2. b[n + 1] <=> (t[n + 1] = "backslash" /\ ~b[n + 1 - 1])
        BY <3>1, EscapesAre DEF b
      <3>3. QED
        BY <1>6, <1>8, <3>1, <3>2
    <2>2. n + 1 # m - 1 /\ n + 1 # m
      BY <1>1, <1>2, <1>8, <2>1
    <2>3. n + 2 \in 2..m - 1 /\ n + 2 - 1 = n + 1
      BY <1>1, <1>5, <2>2
    <2>4. t[n + 2] \in Escapable
      BY <1>2, <2>1, <2>3
    <2>5. QED
      BY <1>1, <2>3, <2>4
  <1>9. QED
    BY <1>5, <1>7, <1>8

\* Of two strings with one start neither is longer.
LEMMA StringsEndAlike ==
  ASSUME NEW s \in Seq(Units), NEW t \in Seq(Units), IsString(s), IsString(t),
         Prefix(s, t)
  PROVE  Len(s) = Len(t)
  <1> DEFINE n == Len(s)
             m == Len(t)
             a == Escapes(s)
             b == Escapes(t)
  <1>1. n \in Nat /\ m \in Nat /\ 2 <= n /\ n <= m
    BY DEF IsString, Prefix
  <1> SUFFICES ASSUME n < m  PROVE FALSE
    BY <1>1
  <1>2. s[n] = "quote" /\ ~a[n - 1] /\ t[n] = s[n]
    BY <1>1 DEF IsString, Prefix
  <1>3. n \in 2..m - 1
    BY <1>1
  <1>4. b[n - 1]
    BY <1>2, <1>3 DEF IsString
  <1>5. \A i \in 0..n : a[i] <=> b[i]
    BY <1>1, EscapesAgree DEF Prefix
  <1> HIDE DEF a, b
  <1>6. QED
    BY <1>1, <1>2, <1>4, <1>5

-----------------------------------------------------------------------------
(* Tokens and the units that they are made of.                               *)

\* The units from x up to y, without it.
Seg(x, y) == SubSeq(source, x, y - 1)

LEMMA SegIs ==
  ASSUME source \in Seq(Units), NEW x \in Nat \ {0}, NEW y \in Nat, x <= y,
         y <= Len(source) + 1
  PROVE  /\ Seg(x, y) \in Seq(Units) /\ Len(Seg(x, y)) = y - x
         /\ \A i \in 1..y - x : Seg(x, y)[i] = source[x + i - 1]
  <1>1. \A i \in x..y - 1 : source[i] \in Units
    <2>1. \A i \in x..y - 1 : i \in 1..Len(source)
      OBVIOUS
    <2>2. QED
      BY <2>1
  <1>2. /\ Seg(x, y) \in Seq(Units)
        /\ Len(Seg(x, y)) = IF x <= y - 1 THEN y - 1 - x + 1 ELSE 0
        /\ \A i \in 1..y - 1 - x + 1 : Seg(x, y)[i] = source[x + i - 1]
    BY <1>1, SubSeqProperties DEF Seg
  <1>3. y - 1 - x + 1 = y - x
    OBVIOUS
  <1>4. QED
    BY <1>2, <1>3

\* What the text of a token says of its kind; as in LexWord and CloseString.
Shaped(t) ==
  /\ t \in Tokens /\ 1 <= t.from /\ t.from < t.to /\ t.to <= Len(source) + 1
  /\ \/ /\ source[t.from] \in Keywords /\ t.kind = KeywordKinds[source[t.from]]
        /\ t.to = t.from + 1 /\ UnitAt(t.to) \notin WordParts
     \/ t.kind = "Identifier" /\ IsName(Seg(t.from, t.to)) /\ UnitAt(t.to) \notin WordParts
     \/ t.kind = "StringLiteral" /\ IsString(Seg(t.from, t.to))

LEMMA KeywordKindsAre ==
  ASSUME NEW w \in Keywords
  PROVE  KeywordKinds[w] \in DeclarationKinds
  BY DEF Keywords, KeywordKinds, DeclarationKinds

LEMMA ShapedIs ==
  ASSUME source \in Seq(Units), NEW t, Shaped(t)
  PROVE  /\ t.from \in Nat \ {0} /\ t.to \in Nat /\ t.from \in 1..Len(source)
         /\ t.from < t.to /\ t.to <= Len(source) + 1
         /\ Seg(t.from, t.to) \in Seq(Units) /\ Len(Seg(t.from, t.to)) = t.to - t.from
         /\ \A i \in 1..t.to - t.from : Seg(t.from, t.to)[i] = source[t.from + i - 1]
         /\ Seg(t.from, t.to)[1] = source[t.from]
         /\ source[t.from] \in Letters \cup {"quote"}
         /\ t.kind = "StringLiteral" <=> source[t.from] = "quote"
         /\ t.kind \notin LineEnds
  <1>1. /\ t.from \in Nat \ {0} /\ t.to \in Nat /\ t.from <= t.to
        /\ t.from \in 1..Len(source) /\ t.from < t.to /\ t.to <= Len(source) + 1
    BY DEF Shaped, Tokens
  <1>2. /\ Seg(t.from, t.to) \in Seq(Units) /\ Len(Seg(t.from, t.to)) = t.to - t.from
        /\ \A i \in 1..t.to - t.from : Seg(t.from, t.to)[i] = source[t.from + i - 1]
    BY <1>1, SegIs DEF Shaped
  <1>3. Seg(t.from, t.to)[1] = source[t.from]
    BY <1>1, <1>2
  <1>4. \A w \in Keywords : KeywordKinds[w] \in DeclarationKinds
    BY KeywordKindsAre
  <1>5. /\ source[t.from] \in Letters \cup {"quote"}
        /\ t.kind = "StringLiteral" <=> source[t.from] = "quote"
        /\ t.kind \notin LineEnds
    <2>1. CASE source[t.from] \in Keywords /\ t.kind = KeywordKinds[source[t.from]]
      BY <1>4, <2>1 DEF Letters, DeclarationKinds, LineEnds, Keywords
    <2>2. CASE t.kind = "Identifier" /\ IsName(Seg(t.from, t.to))
      BY <1>3, <2>2 DEF IsName, Letters, Keywords, LineEnds
    <2>3. CASE t.kind = "StringLiteral" /\ IsString(Seg(t.from, t.to))
      BY <1>3, <2>3 DEF IsString, LineEnds
    <2>4. QED
      BY <2>1, <2>2, <2>3 DEF Shaped
  <1>6. QED
    BY <1>1, <1>2, <1>3, <1>5

\* Where a token starts says where it ends, and what it is.
LEMMA OneTokenFromAPlace ==
  ASSUME source \in Seq(Units), NEW t, NEW u, Shaped(t), Shaped(u), t.from = u.from
  PROVE  t = u
  <1> DEFINE Ends(a, b) ==
               /\ a \in Tokens /\ b \in Tokens /\ a.from = b.from
               /\ a.kind = b.kind /\ a.to = b.to
             Longer(a, b) == Shaped(a) /\ Shaped(b) /\ a.from = b.from /\ a.to < b.to
  <1>1. ASSUME NEW a, NEW b, Longer(a, b)  PROVE FALSE
    <2> DEFINE s == Seg(a.from, a.to)
               r == Seg(b.from, b.to)
               x == a.from
               n == a.to - x
               m == b.to - x
    <2>1. /\ x \in Nat \ {0} /\ a.to \in Nat /\ b.to \in Nat /\ a.to <= Len(source)
          /\ n \in Nat \ {0} /\ m \in Nat /\ n < m /\ b.from = x
      <3>1. /\ a.from \in Nat \ {0} /\ a.to \in Nat /\ b.to \in Nat /\ a.from < a.to
            /\ b.to <= Len(source) + 1 /\ a.to < b.to /\ b.from = x /\ Len(source) \in Nat
        BY <1>1, ShapedIs
      <3>2. QED
        BY <3>1
    <2>2. /\ s \in Seq(Units) /\ r \in Seq(Units) /\ Len(s) = n /\ Len(r) = m
          /\ \A i \in 1..n : s[i] = source[x + i - 1]
          /\ \A i \in 1..m : r[i] = source[x + i - 1]
      BY <1>1, ShapedIs
    <2>3. UnitAt(a.to) = r[n + 1]
      <3>1. n + 1 \in 1..m /\ x + (n + 1) - 1 = a.to /\ ~(a.to > Len(source))
        BY <2>1
      <3>2. r[n + 1] = source[a.to]
        BY <2>2, <3>1
      <3>3. QED
        BY <3>1, <3>2 DEF UnitAt
    <2>4. CASE source[x] = "quote"
      <3>1. IsString(s) /\ IsString(r)
        BY <1>1, <2>4, ShapedIs DEF Shaped, Keywords, IsName, Letters
      <3>2. Prefix(s, r)
        BY <2>1, <2>2 DEF Prefix
      <3> HIDE DEF s, r, n, m
      <3>3. QED
        BY <2>1, <2>2, <3>1, <3>2, StringsEndAlike
    <2>5. CASE source[x] # "quote"
      <3>1. a.kind # "StringLiteral" /\ b.kind # "StringLiteral"
        BY <1>1, <2>5, ShapedIs
      <3>2. UnitAt(a.to) \notin WordParts
        BY <1>1, <3>1 DEF Shaped
      <3>3. b.to # b.from + 1
        BY <2>1
      <3>4. IsName(Seg(b.from, b.to))
        BY <1>1, <3>1, <3>3 DEF Shaped
      <3>5. r[n + 1] \in WordParts
        <4>1. n + 1 \in DOMAIN r
          BY <2>1, <2>2
        <4>2. QED
          BY <3>4, <4>1 DEF IsName
      <3>6. QED
        BY <2>3, <3>2, <3>5
    <2>6. QED
      BY <2>4, <2>5
  <1>2. t.to = u.to
    <2>1. t.to \in Nat /\ u.to \in Nat /\ ~(t.to < u.to) /\ ~(u.to < t.to)
      BY <1>1, ShapedIs
    <2>2. QED
      BY <2>1
  <1>3. t.kind = u.kind
    <2>1. ASSUME NEW a, NEW b, Shaped(a), Shaped(b), a.from = b.from, a.to = b.to,
                 a.kind = "Identifier"
          PROVE  b.kind = "Identifier"
      <3>1. a.kind # "StringLiteral" /\ b.kind # "StringLiteral"
        BY <2>1, ShapedIs
      <3>2. IsName(Seg(a.from, a.to)) /\ Seg(a.from, a.to)[1] = source[a.from]
        <4>1. \A w \in Keywords : KeywordKinds[w] # "Identifier"
          BY KeywordKindsAre DEF DeclarationKinds
        <4>2. QED
          BY <2>1, <4>1, ShapedIs DEF Shaped
      <3>3. a.to = a.from + 1 => Len(Seg(a.from, a.to)) = 1
        <4>1. Len(Seg(a.from, a.to)) = a.to - a.from /\ a.from \in Nat
          BY <2>1, ShapedIs
        <4>2. QED
          BY <4>1
      <3>4. a.to = a.from + 1 => source[a.from] \notin Keywords
        BY <3>2, <3>3 DEF IsName
      <3>5. QED
        BY <2>1, <3>1, <3>4 DEF Shaped
    <2>2. t.kind = "Identifier" <=> u.kind = "Identifier"
      BY <1>2, <2>1
    <2>3. t.kind = "StringLiteral" <=> u.kind = "StringLiteral"
      BY ShapedIs
    <2>4. QED
      BY <2>2, <2>3 DEF Shaped
  <1>4. QED
    BY <1>2, <1>3 DEF Shaped, Tokens

-----------------------------------------------------------------------------
(* Where the lines of a document are in its source.                          *)

\* Where sequences start in the one that they are joined to.
LaidIn(all, seqs, first, m) ==
  /\ first \in [1..m -> Nat \ {0}] /\ first[1] = 1
  /\ \A i \in 1..m - 1 : first[i + 1] = first[i] + Len(seqs[i])
  /\ first[m] + Len(seqs[m]) = Len(all) + 1
  /\ \A i \in 1..m : first[i] + Len(seqs[i]) <= Len(all) + 1
  /\ \A i \in 1..m : \A j \in 1..Len(seqs[i]) : all[first[i] + j - 1] = seqs[i][j]

LEMMA OneMoreLaid ==
  ASSUME NEW S, NEW seqs \in Seq(Seq(S)), NEW m \in Nat \ {0}, NEW k, k = m + 1,
         k <= Len(seqs), NEW a \in Seq(S), NEW first, LaidIn(a, seqs, first, m),
         NEW all, all = a \o seqs[k]
  PROVE  \E g : LaidIn(all, seqs, g, k)
  <1> DEFINE b == seqs[k]
             la == Len(a)
             lb == Len(b)
             g == [i \in 1..k |-> IF i = k THEN la + 1 ELSE first[i]]
  <1>1. \A i \in 1..k : seqs[i] \in Seq(S) /\ Len(seqs[i]) \in Nat
    OBVIOUS
  <1>2. k \in 1..k /\ k - 1 = m /\ k \in Nat
    OBVIOUS
  <1>3. b \in Seq(S) /\ la \in Nat /\ lb \in Nat
    BY <1>1, <1>2
  <1>4. /\ all \in Seq(S) /\ Len(all) = la + lb
        /\ \A x \in 1..la : all[x] = a[x]
        /\ \A j \in 1..lb : all[la + j] = b[j]
    BY <1>3
  <1>5. g[k] = la + 1 /\ \A i \in 1..m : g[i] = first[i]
    BY <1>2
  <1>6. \A i \in 1..k : i = k \/ i \in 1..m
    OBVIOUS
  <1>7. \A i \in 1..m : first[i] \in Nat \ {0}
    BY DEF LaidIn
  <1>8. g \in [1..k -> Nat \ {0}]
    BY <1>3, <1>6, <1>7
  <1> HIDE DEF g, la, lb, b
  <1>9. g[1] = 1
    <2>1. 1 \in 1..m
      OBVIOUS
    <2>2. QED
      BY <1>5, <2>1 DEF LaidIn
  <1>10. ASSUME NEW i \in 1..k - 1  PROVE g[i + 1] = g[i] + Len(seqs[i])
    <2>1. i \in 1..m
      BY <1>2
    <2>2. CASE i = m
      <3>1. first[m] + Len(seqs[m]) = la + 1
        BY DEF LaidIn, la
      <3>2. g[i + 1] = la + 1 /\ g[i] = first[m]
        BY <1>5, <2>1, <2>2
      <3>3. QED
        BY <2>2, <3>1, <3>2
    <2>3. CASE i # m
      <3>1. i \in 1..m - 1 /\ i + 1 \in 1..m
        BY <2>1, <2>3
      <3>2. g[i + 1] = first[i + 1] /\ g[i] = first[i]
        BY <1>5, <2>1, <3>1
      <3>3. first[i + 1] = first[i] + Len(seqs[i])
        BY <3>1 DEF LaidIn
      <3>4. QED
        BY <3>2, <3>3
    <2>4. QED
      BY <2>2, <2>3
  <1>11. Len(seqs[k]) = lb
    BY DEF lb, b
  <1>12. g[k] + Len(seqs[k]) = Len(all) + 1
    BY <1>3, <1>4, <1>5, <1>11
  <1>13. ASSUME NEW i \in 1..k
         PROVE  g[i] + Len(seqs[i]) <= Len(all) + 1
    <2>1. Len(all) = la + lb
      BY <1>4
    <2>2. CASE i = k
      BY <1>3, <1>12, <2>1, <2>2
    <2>3. CASE i \in 1..m
      <3>1. first[i] + Len(seqs[i]) <= la + 1
        BY <2>3 DEF LaidIn, la
      <3>2. first[i] \in Nat /\ Len(seqs[i]) \in Nat
        BY <1>1, <1>7, <2>3
      <3>3. g[i] = first[i]
        BY <1>5, <2>3
      <3>4. QED
        BY SMTT(40), <1>3, <2>1, <3>1, <3>2, <3>3
    <2>4. QED
      BY <1>6, <2>2, <2>3
  <1>14. ASSUME NEW i \in 1..k, NEW j \in 1..Len(seqs[i])
         PROVE  all[g[i] + j - 1] = seqs[i][j]
    <2>1. CASE i = k
      <3>1. j \in 1..lb
        BY <1>11, <2>1
      <3>2. g[i] + j - 1 = la + j
        <4>1. g[i] = la + 1 /\ la \in Nat /\ j \in Nat
          BY <1>3, <1>5, <2>1
        <4>2. QED
          BY <4>1
      <3>3. QED
        BY <1>4, <2>1, <3>1, <3>2 DEF b
    <2>2. CASE i \in 1..m
      <3>1. first[i] + Len(seqs[i]) <= la + 1 /\ a[first[i] + j - 1] = seqs[i][j]
        BY <2>2 DEF LaidIn, la
      <3>2. first[i] \in Nat \ {0} /\ Len(seqs[i]) \in Nat /\ j \in 1..Len(seqs[i])
        BY <1>1, <1>7, <2>2
      <3>3. g[i] = first[i]
        BY <1>5, <2>2
      <3>4. first[i] + j - 1 \in 1..la
        <4>1. \A x, l, y, e \in Nat : 1 <= x /\ 1 <= y /\ y <= l /\ x + l <= e + 1 =>
                x + y - 1 \in 1..e
          OBVIOUS
        <4>2. first[i] \in Nat /\ 1 <= first[i] /\ j \in Nat /\ 1 <= j /\ j <= Len(seqs[i])
          BY <3>2
        <4>3. QED
          BY <1>3, <3>1, <3>2, <4>1, <4>2
      <3>5. QED
        BY <1>4, <3>1, <3>3, <3>4
    <2>3. QED
      BY <1>6, <2>1, <2>2
  <1>15. QED
    BY ONLY ZenonT(60), <1>8, <1>9, <1>10, <1>12, <1>13, <1>14 DEF LaidIn

\* Where the sequences that FlattenSeq joins start.
LEMMA FlattenLays ==
  ASSUME NEW S, NEW seqs \in Seq(Seq(S)), seqs # <<>>
  PROVE  \E first : LaidIn(FlattenSeq(seqs), seqs, first, Len(seqs))
  <1> DEFINE n == Len(seqs)
  <1>1. n \in Nat \ {0}
    OBVIOUS
  <1>2. PICK f : /\ \A i \in 1..n : /\ f[i] \in Seq(S)
                                    /\ f[i] = IF i = 1 THEN seqs[i] ELSE f[i - 1] \o seqs[i]
                 /\ FlattenSeq(seqs) = f[n]
    BY FlattenSteps
  <1> DEFINE Laid(m) == \E first : LaidIn(f[m], seqs, first, m)
             T == {m \in 1..n : ~Laid(m)}
  <1> SUFFICES ASSUME T # {}  PROVE FALSE
    <2>1. n \in 1..n
      BY <1>1
    <2>2. QED
      BY <1>2, <2>1
  <1>3. PICK m \in T : \A y \in T : m <= y
    <2>1. T \in SUBSET Nat
      OBVIOUS
    <2> HIDE DEF T
    <2>2. QED
      BY <2>1, Smallest
  <1>4. m \in 1..n /\ ~Laid(m)
    BY <1>3
  <1>5. m # 1
    <2>1. f[1] = seqs[1] /\ seqs[1] \in Seq(S) /\ Len(seqs[1]) \in Nat
      BY <1>1, <1>2
    <2> DEFINE first == [i \in 1..1 |-> 1]
    <2>2. first \in [1..1 -> Nat \ {0}] /\ first[1] = 1 /\ \A i \in 1..1 : i = 1
      OBVIOUS
    <2> HIDE DEF first
    <2>3. LaidIn(seqs[1], seqs, first, 1)
      BY <2>1, <2>2 DEF LaidIn
    <2>4. Laid(1)
      BY <2>1, <2>3
    <2>5. QED
      BY <1>4, <2>4
  <1> DEFINE p == m - 1
  <1>6. p \in Nat \ {0} /\ p \in 1..n /\ m = p + 1 /\ ~(m <= p) /\ m - 1 = p /\ m <= Len(seqs)
    BY <1>1, <1>4, <1>5
  <1> HIDE DEF p
  <1>7. Laid(p)
    <2>1. p \notin T
      <3> HIDE DEF T
      <3>1. QED
        BY <1>3, <1>6
    <2> HIDE DEF Laid
    <2>2. QED
      BY <1>6, <2>1
  <1>8. f[p] \in Seq(S) /\ f[m] = f[p] \o seqs[m]
    <2>1. f[m] = IF m = 1 THEN seqs[m] ELSE f[m - 1] \o seqs[m]
      BY <1>2, <1>4
    <2>2. QED
      BY <1>2, <1>5, <1>6, <2>1
  <1>9. PICK first : LaidIn(f[p], seqs, first, p)
    BY <1>7
  <1>10. \E g : LaidIn(f[m], seqs, g, m)
    <2> HIDE DEF T, n, Laid
    <2>1. QED
      BY ONLY seqs \in Seq(Seq(S)), <1>6, <1>8, <1>9, OneMoreLaid
  <1>11. QED
    BY <1>4, <1>10

\* A line of the document, and where it is in the source: what is before it and
\* what comes behind it.
LineAt(l, x, y) ==
  /\ l \in Seq(Units \ {"lf"}) /\ x \in Nat \ {0} /\ y = x + Len(l) /\ y <= Len(source) + 1
  /\ \A j \in 1..Len(l) : source[x + j - 1] = l[j]
  /\ x # 1 => source[x - 1] = "lf"
  /\ y <= Len(source) => BreakAt(y) > 0 /\ (l # <<>> => l[Len(l)] # "cr")

\* Where the lines of the document start; what is in none of them is a break.
Past(first, k) == first[k] + Len(lines[k])
Layout(first) ==
  /\ lines \in Documents
  /\ \A k \in DOMAIN lines : LineAt(lines[k], first[k], Past(first, k))
  /\ \A j, k \in DOMAIN lines : j < k => Past(first, j) < first[k]
  /\ \A i \in DOMAIN source :
       BreakAt(i) > 0 \/ \E k \in DOMAIN lines : first[k] <= i /\ i < Past(first, k)

LEMMA StartsInOrder ==
  ASSUME NEW n \in Nat, NEW f \in [1..n -> Nat], NEW len \in [1..n -> Nat],
         \A i \in 1..n - 1 : f[i + 1] = f[i] + len[i]
  PROVE  \A k \in 1..n : \A j \in 1..k - 1 : f[j] + len[j] <= f[k]
  <1> DEFINE Before(k) == \A j \in 1..k - 1 : f[j] + len[j] <= f[k]
             T == {k \in 1..n : ~Before(k)}
  <1> SUFFICES ASSUME T # {}  PROVE FALSE
    OBVIOUS
  <1>1. PICK k \in T : \A y \in T : k <= y
    <2>1. T \in SUBSET Nat
      OBVIOUS
    <2> HIDE DEF T
    <2>2. QED
      BY <2>1, Smallest
  <1>2. PICK j \in 1..k - 1 : ~(f[j] + len[j] <= f[k])
    BY <1>1
  <1>3. k \in 1..n /\ j \in 1..k - 1
    BY <1>1, <1>2
  <1> DEFINE p == k - 1
  <1>4. p \in 1..n - 1 /\ p \in 1..n /\ k = p + 1 /\ ~(k <= p) /\ j \in 1..p
    BY <1>3
  <1> HIDE DEF p
  <1>5. Before(p)
    <2>1. p \notin T
      <3> HIDE DEF T
      <3>1. QED
        BY <1>1, <1>4
    <2> HIDE DEF Before
    <2>2. QED
      BY <1>4, <2>1
  <1>6. f[k] = f[p] + len[p] /\ f[p] \in Nat /\ len[p] \in Nat
    BY <1>4
  <1>7. CASE j = p
    BY <1>2, <1>6, <1>7
  <1>8. CASE j # p
    <2>1. j \in 1..p - 1 /\ j \in 1..n
      BY <1>4, <1>8
    <2>2. f[j] + len[j] <= f[p] /\ f[j] \in Nat /\ len[j] \in Nat
      BY <1>5, <2>1
    <2>3. \A a, b, c, d \in Nat : a + b <= c => a + b <= c + d
      OBVIOUS
    <2>4. f[j] + len[j] <= f[p] + len[p]
      BY <1>6, <2>2, <2>3
    <2>5. QED
      BY <1>2, <1>6, <2>4
  <1>9. QED
    BY <1>7, <1>8

\* A line behind a break.
WithBreak(l) == {b \o l : b \in Breaks}

\* What a document's source is joined from: its lines, but for the first each
\* behind a break.
LEMMA SourceIsJoined ==
  ASSUME Init, NEW n, n = Len(lines)
  PROVE  /\ lines \in Documents /\ n \in Nat \ {0} /\ DOMAIN lines = 1..n
         /\ \A k \in 1..n : lines[k] \in Seq(Units \ {"lf"}) /\ lines[k] \in Seq(Units)
         /\ \E seqs \in Seq(Seq(Units)) :
              /\ Len(seqs) = n /\ seqs # <<>> /\ source = FlattenSeq(seqs)
              /\ seqs[1] = lines[1]
              /\ \A k \in 2..n : seqs[k] \in WithBreak(lines[k])
  <1>1. lines \in Documents /\ lines # <<>> /\ lines \in Seq(Seq(Units \ {"lf"}))
    BY LineAssumption DEF Init
  <1>2. n \in Nat \ {0} /\ DOMAIN lines = 1..n
    BY <1>1
  <1>3. \A k \in 1..n : lines[k] \in Seq(Units \ {"lf"}) /\ lines[k] \in Seq(Units)
    <2>1. \A k \in 1..n : lines[k] \in Seq(Units \ {"lf"})
      BY <1>1, <1>2
    <2>2. \A s \in Seq(Units \ {"lf"}) : s \in Seq(Units)
      OBVIOUS
    <2>3. QED
      BY <2>1, <2>2
  <1>4. PICK break \in [2..n -> Breaks] :
          source = FlattenSeq([i \in DOMAIN lines |->
                     IF i = 1 THEN lines[i] ELSE break[i] \o lines[i]])
    BY DEF Init
  <1> DEFINE seqs == [i \in DOMAIN lines |-> IF i = 1 THEN lines[i] ELSE break[i] \o lines[i]]
  <1>5. Breaks \subseteq Seq(Units)
    <2>1. "lf" \in Units /\ "cr" \in Units
      BY DEF Units, LineBreaks
    <2>2. <<"lf">> \in Seq(Units) /\ <<"cr", "lf">> \in Seq(Units)
      BY <2>1
    <2>3. QED
      BY <2>2 DEF Breaks
  <1>6. \A i \in 1..n : seqs[i] \in Seq(Units)
    <2> TAKE i \in 1..n
    <2>1. i # 1 => break[i] \in Seq(Units)
      BY <1>2, <1>5
    <2>2. i # 1 => break[i] \o lines[i] \in Seq(Units)
      BY <1>3, <2>1, ConcatProperties
    <2>3. QED
      BY <1>2, <1>3, <2>2
  <1>7. seqs[1] = lines[1]
    BY <1>2
  <1>8. \A k \in 2..n : seqs[k] \in WithBreak(lines[k])
    <2> TAKE k \in 2..n
    <2>1. break[k] \in Breaks
      OBVIOUS
    <2>2. k \in DOMAIN lines /\ k # 1
      BY <1>2
    <2>3. seqs[k] = break[k] \o lines[k]
      BY <2>2
    <2>4. QED
      BY <2>1, <2>3 DEF WithBreak
  <1>9. seqs \in Seq(Seq(Units)) /\ Len(seqs) = n /\ seqs # <<>>
    <2>1. seqs \in [1..n -> Seq(Units)] /\ 1 \in DOMAIN seqs
      BY <1>2, <1>6
    <2> HIDE DEF seqs
    <2>2. QED
      BY <1>2, <2>1
  <1>10. source = FlattenSeq(seqs)
    BY <1>4
  <1> HIDE DEF seqs
  <1>11. QED
    BY <1>1, <1>2, <1>3, <1>7, <1>8, <1>9, <1>10

LEMMA BehindBreak ==
  ASSUME NEW l \in Seq(Units), NEW s \in WithBreak(l)
  PROVE  \E g \in 1..2 :
           /\ Len(s) = g + Len(l) /\ \A j \in 1..Len(l) : s[g + j] = l[j]
           /\ s[g] = "lf" /\ (g = 2 => s[1] = "cr")
  <1>1. "lf" \in Units /\ "cr" \in Units
    BY DEF Units, LineBreaks
  <1>2. ASSUME NEW b \in Seq(Units)
        PROVE  /\ Len(b \o l) = Len(b) + Len(l)
               /\ \A j \in 1..Len(b) : (b \o l)[j] = b[j]
               /\ \A j \in 1..Len(l) : (b \o l)[Len(b) + j] = l[j]
    OBVIOUS
  <1>3. CASE s = <<"lf">> \o l
    <2>1. /\ <<"lf">> \in Seq(Units) /\ Len(<<"lf">>) = 1 /\ <<"lf">>[1] = "lf"
          /\ 1 \in 1..1 /\ 1 \in 1..2
      BY <1>1
    <2>2. s[1] = "lf" /\ Len(s) = 1 + Len(l) /\ \A j \in 1..Len(l) : s[1 + j] = l[j]
      BY <1>2, <1>3, <2>1
    <2>3. QED
      BY <2>1, <2>2
  <1>4. CASE s = <<"cr", "lf">> \o l
    <2> DEFINE b == <<"cr", "lf">>
    <2>1. /\ b \in Seq(Units) /\ Len(b) = 2 /\ b[1] = "cr" /\ b[2] = "lf"
          /\ 1 \in 1..2 /\ 2 \in 1..2
      BY <1>1
    <2> HIDE DEF b
    <2>2. s = b \o l
      BY <1>4 DEF b
    <2>3. /\ s[1] = "cr" /\ s[2] = "lf" /\ Len(s) = 2 + Len(l)
          /\ \A j \in 1..Len(l) : s[2 + j] = l[j]
      BY <1>2, <2>1, <2>2
    <2>4. QED
      BY <2>1, <2>3
  <1>5. QED
    BY <1>3, <1>4 DEF WithBreak, Breaks

\* Init lays the lines of the document out.
LEMMA InitLayout ==
  ASSUME Init, source \in Seq(Units)
  PROVE  \E first : Layout(first)
  <1> DEFINE n == Len(lines)
             m == Len(source)
  <1>1. /\ lines \in Documents /\ n \in Nat \ {0} /\ DOMAIN lines = 1..n /\ m \in Nat
        /\ \A k \in 1..n : lines[k] \in Seq(Units \ {"lf"}) /\ lines[k] \in Seq(Units)
        /\ \A k \in 1..n : Len(lines[k]) \in Nat
    <2>1. /\ lines \in Documents /\ n \in Nat \ {0} /\ DOMAIN lines = 1..n
          /\ \A k \in 1..n : lines[k] \in Seq(Units \ {"lf"}) /\ lines[k] \in Seq(Units)
      BY SourceIsJoined
    <2>2. m \in Nat /\ \A s \in Seq(Units) : Len(s) \in Nat
      OBVIOUS
    <2>3. QED
      BY <2>1, <2>2
  <1>2. PICK seqs \in Seq(Seq(Units)) :
          /\ Len(seqs) = n /\ seqs # <<>> /\ source = FlattenSeq(seqs)
          /\ seqs[1] = lines[1]
          /\ \A k \in 2..n : seqs[k] \in WithBreak(lines[k])
    BY SourceIsJoined
  <1>3. \A k \in 1..n - 1 : lines[k] # <<>> => lines[k][Len(lines[k])] # "cr"
    BY <1>1, LineAssumption
  <1>4. PICK f : LaidIn(source, seqs, f, n)
    BY <1>2, FlattenLays
  <1> DEFINE len == [k \in 1..n |-> Len(seqs[k])]
             Gap(k, g) ==
               /\ g \in 0..2 /\ len[k] = g + Len(lines[k])
               /\ \A j \in 1..Len(lines[k]) : seqs[k][g + j] = lines[k][j]
               /\ k = 1 => g = 0
               /\ k # 1 => g # 0 /\ seqs[k][g] = "lf" /\ (g = 2 => seqs[k][1] = "cr")
             gap == [k \in 1..n |-> CHOOSE g : Gap(k, g)]
  <1>5. ASSUME NEW k \in 1..n  PROVE Gap(k, gap[k])
    <2>1. \E g : Gap(k, g)
      <3>1. CASE k = 1
        <4>1. len[k] = Len(lines[k]) /\ seqs[k] = lines[k] /\ Len(lines[k]) \in Nat
          BY <1>1, <1>2, <3>1
        <4>2. Gap(k, 0)
          BY <3>1, <4>1
        <4>3. QED
          BY <4>2
      <3>2. CASE k # 1
        <4>1. k \in 2..n
          BY <1>1, <3>2
        <4>2. PICK g \in 1..2 :
                /\ Len(seqs[k]) = g + Len(lines[k])
                /\ \A j \in 1..Len(lines[k]) : seqs[k][g + j] = lines[k][j]
                /\ seqs[k][g] = "lf" /\ (g = 2 => seqs[k][1] = "cr")
          <5> HIDE DEF n, m, len, Gap
          <5>1. lines[k] \in Seq(Units)
            BY <1>1
          <5>2. seqs[k] \in WithBreak(lines[k])
            BY <1>2, <4>1
          <5>3. QED
            BY ONLY ZenonT(60), <5>1, <5>2, BehindBreak
        <4>3. g \in 0..2 /\ g # 0
          OBVIOUS
        <4>4. Gap(k, g)
          BY <3>2, <4>2, <4>3
        <4>5. QED
          BY <4>4
      <3>3. QED
        BY <3>1, <3>2
    <2> HIDE DEF Gap
    <2>2. QED
      BY <2>1
  <1> HIDE DEF gap
  <1> DEFINE first == [k \in 1..n |-> f[k] + gap[k]]
  <1>6. ASSUME NEW k \in 1..n
        PROVE  /\ f[k] \in Nat \ {0} /\ len[k] \in Nat /\ gap[k] \in 0..2
               /\ first[k] = f[k] + gap[k] /\ len[k] = gap[k] + Len(lines[k])
               /\ f[k] + len[k] <= m + 1
               /\ \A j \in 1..len[k] : source[f[k] + j - 1] = seqs[k][j]
               /\ \A j \in 1..Len(lines[k]) : seqs[k][gap[k] + j] = lines[k][j]
               /\ k = 1 => gap[k] = 0
               /\ k # 1 => gap[k] # 0 /\ seqs[k][gap[k]] = "lf" /\ (gap[k] = 2 => seqs[k][1] = "cr")
    <2>1. len[k] = Len(seqs[k]) /\ Len(seqs[k]) \in Nat
      BY <1>2
    <2>2. /\ f[k] \in Nat \ {0} /\ f[k] + len[k] <= m + 1
          /\ \A j \in 1..len[k] : source[f[k] + j - 1] = seqs[k][j]
      BY <1>4, <2>1 DEF LaidIn
    <2>3. first[k] = f[k] + gap[k]
      OBVIOUS
    <2>4. QED
      BY <1>5, <2>1, <2>2, <2>3
  <1>7. /\ f[1] = 1 /\ f[n] + len[n] = m + 1 /\ n \in 1..n /\ 1 \in 1..n
        /\ \A k \in 1..n - 1 : f[k + 1] = f[k] + len[k] /\ k \in 1..n /\ k + 1 \in 1..n
    <2>1. n \in 1..n /\ 1 \in 1..n /\ \A k \in 1..n - 1 : k \in 1..n /\ k + 1 \in 1..n
      BY <1>1
    <2>2. \A k \in 1..n : len[k] = Len(seqs[k])
      OBVIOUS
    <2>3. QED
      BY <1>4, <2>1, <2>2 DEF LaidIn
  <1> HIDE DEF len, Gap, first, n, m
  <1>8. ASSUME NEW k \in 1..n
        PROVE  /\ first[k] \in Nat \ {0} /\ f[k] <= first[k]
               /\ Past(first, k) = f[k] + len[k] /\ first[k] <= f[k] + len[k]
    <2>1. /\ f[k] \in Nat \ {0} /\ len[k] \in Nat /\ gap[k] \in Nat /\ Len(lines[k]) \in Nat
          /\ first[k] = f[k] + gap[k] /\ len[k] = gap[k] + Len(lines[k])
      BY SMTT(40), <1>1, <1>6
    <2>2. QED
      BY SMTT(40), <2>1 DEF Past
  <1>9. ASSUME NEW k \in 1..n, k # 1
        PROVE  /\ f[k] < first[k] /\ source[first[k] - 1] = "lf" /\ first[k] - 1 <= m
               /\ \A i \in Nat : f[k] <= i /\ i < first[k] => BreakAt(i) > 0
    <2> DEFINE g == gap[k]
               x == f[k]
               l == len[k]
    <2>1. /\ x \in Nat \ {0} /\ g \in 1..2 /\ l \in Nat /\ g <= l /\ first[k] = x + g
          /\ x + l <= m + 1
      <3>1. Len(lines[k]) \in Nat /\ g \in 1..2 /\ l = g + Len(lines[k]) /\ x \in Nat \ {0}
            /\ first[k] = x + g /\ x + l <= m + 1
        BY <1>1, <1>6, <1>9
      <3>2. QED
        BY <3>1
    <2>2. /\ \A j \in 1..l : source[x + j - 1] = seqs[k][j]
          /\ seqs[k][g] = "lf" /\ (g = 2 => seqs[k][1] = "cr")
      BY <1>6, <1>9
    <2> HIDE DEF g, x, l
    <2>3. g \in 1..l /\ 1 \in 1..l /\ first[k] - 1 = x + g - 1 /\ x + 1 - 1 = x
      BY <2>1
    <2>4. source[x + g - 1] = "lf" /\ (g = 2 => source[x] = "cr")
      BY <2>2, <2>3
    <2>5. x + g - 1 \in Nat \ {0} /\ x + g - 1 <= m
      BY <1>1, <2>1
    <2>6. UnitAt(x + g - 1) = "lf" /\ (g = 2 => UnitAt(x) = "cr" /\ UnitAt(x + 1) = "lf")
      <3>1. ~(x + g - 1 > m) /\ ~(x > m)
        BY <1>1, <2>1
      <3>2. g = 2 => x + 1 = x + g - 1
        BY <2>1
      <3>3. QED
        BY <2>4, <3>1, <3>2 DEF UnitAt, m
    <2>7. ASSUME NEW i \in Nat, x <= i, i < first[k]  PROVE BreakAt(i) > 0
      <3>1. i = x + g - 1 \/ (g = 2 /\ i = x)
        BY <2>1, <2>7
      <3>2. QED
        BY <2>6, <3>1 DEF BreakAt
    <2>8. QED
      BY <2>1, <2>3, <2>4, <2>5, <2>7 DEF x
  <1>10. ASSUME NEW k \in 1..n  PROVE LineAt(lines[k], first[k], Past(first, k))
    <2> DEFINE l == lines[k]
               y == Past(first, k)
    <2>1. /\ l \in Seq(Units \ {"lf"}) /\ first[k] \in Nat \ {0} /\ y = first[k] + Len(l)
          /\ y <= m + 1
      BY <1>1, <1>6, <1>8 DEF Past
    <2>2. ASSUME NEW j \in 1..Len(l)  PROVE source[first[k] + j - 1] = l[j]
      <3>1. /\ gap[k] \in Nat /\ Len(l) \in Nat /\ len[k] = gap[k] + Len(l) /\ f[k] \in Nat
            /\ first[k] = f[k] + gap[k]
        <4>1. Len(l) \in Nat
          BY <1>1
        <4>2. gap[k] \in 0..2 /\ f[k] \in Nat
          BY <1>6
        <4>3. first[k] = f[k] + gap[k] /\ len[k] = gap[k] + Len(l)
          BY <1>6
        <4>4. QED
          BY <4>1, <4>2, <4>3
      <3>2. gap[k] + j \in 1..len[k] /\ first[k] + j - 1 = f[k] + (gap[k] + j) - 1
        BY SMTT(40), <3>1
      <3>3. source[f[k] + (gap[k] + j) - 1] = seqs[k][gap[k] + j]
        BY <1>6, <3>2
      <3>4. seqs[k][gap[k] + j] = l[j]
        BY <1>6
      <3>5. QED
        BY <3>2, <3>3, <3>4
    <2>3. first[k] # 1 => source[first[k] - 1] = "lf"
      <3>1. k = 1 => first[k] = 1
        BY <1>6, <1>7
      <3>2. QED
        BY <1>9, <3>1
    <2>4. ASSUME y <= m  PROVE BreakAt(y) > 0 /\ (l # <<>> => l[Len(l)] # "cr")
      <3>1. y = f[k] + len[k] /\ y \in Nat
        BY <1>6, <1>8
      <3>2. k # n
        BY <1>1, <1>7, <2>4, <3>1
      <3>3. k \in 1..n - 1
        BY <1>1, <3>2
      <3>4. f[k + 1] = y /\ k + 1 \in 1..n /\ k + 1 # 1
        BY <1>7, <3>1, <3>3
      <3>5. f[k + 1] < first[k + 1]
        BY <1>9, <3>4
      <3>6. BreakAt(y) > 0
        BY <1>9, <3>1, <3>4, <3>5
      <3>7. QED
        BY <1>3, <3>3, <3>6
    <2> HIDE DEF l, y
    <2>5. QED
      BY <2>1, <2>2, <2>3, <2>4 DEF LineAt, m, l, y
  <1>11. \A j, k \in 1..n : j < k => Past(first, j) < first[k]
    <2> SUFFICES ASSUME NEW j \in 1..n, NEW k \in 1..n, j < k  PROVE Past(first, j) < first[k]
      OBVIOUS
    <2>1. f \in [1..n -> Nat] /\ len \in [1..n -> Nat]
      <3>1. \A i \in 1..n : f[i] \in Nat /\ len[i] \in Nat
        BY <1>6
      <3>2. DOMAIN f = 1..n /\ f = [i \in DOMAIN f |-> f[i]]
        BY <1>4 DEF LaidIn
      <3>3. len = [i \in 1..n |-> len[i]]
        BY DEF len
      <3>4. QED
        BY <3>1, <3>2, <3>3
    <2>2. f[j] + len[j] <= f[k]
      <3>1. j \in 1..k - 1 /\ n \in Nat
        BY <1>1
      <3>2. \A i \in 1..n - 1 : f[i + 1] = f[i] + len[i]
        BY <1>7
      <3>3. QED
        BY <2>1, <3>1, <3>2, StartsInOrder
    <2>3. Past(first, j) = f[j] + len[j] /\ f[k] < first[k]
      BY <1>1, <1>8, <1>9
    <2>4. /\ f[j] \in Nat /\ len[j] \in Nat /\ f[k] \in Nat /\ first[k] \in Nat
      BY <1>6, <1>8
    <2>5. QED
      BY <2>2, <2>3, <2>4
  <1>12. ASSUME NEW i \in DOMAIN source
         PROVE  BreakAt(i) > 0 \/ \E k \in 1..n : first[k] <= i /\ i < Past(first, k)
    <2>1. i \in Nat /\ 1 <= i /\ i <= m /\ m \in Nat
      BY <1>1 DEF m
    <2> DEFINE K == {n - k : k \in {c \in 1..n : f[c] <= i}}
    <2>2. K \in SUBSET Nat /\ K # {}
      <3>1. 1 \in {c \in 1..n : f[c] <= i}
        BY <1>7, <2>1
      <3>2. \A c \in 1..n : n - c \in Nat
        BY <1>1
      <3>3. QED
        BY <3>1, <3>2
    <2>3. PICK k \in 1..n : f[k] <= i /\ \A c \in 1..n : f[c] <= i => c <= k
      <3>1. PICK d \in K : \A y \in K : d <= y
        <4> HIDE DEF K
        <4>1. QED
          BY <2>2, Smallest
      <3>2. PICK k \in 1..n : d = n - k /\ f[k] <= i
        OBVIOUS
      <3>3. ASSUME NEW c \in 1..n, f[c] <= i  PROVE c <= k
        <4>1. n - c \in K
          BY <3>3
        <4>2. n - k <= n - c
          <5> HIDE DEF K
          <5>1. QED
            BY <3>1, <3>2, <4>1
        <4>3. QED
          BY <1>1, <4>2
      <3>4. QED
        BY <3>2, <3>3
    <2>4. i < f[k] + len[k]
      <3>1. CASE k = n
        BY <1>7, <2>1, <3>1
      <3>2. CASE k # n
        <4>1. k \in 1..n - 1 /\ k + 1 \in 1..n /\ ~(k + 1 <= k)
          BY <1>1, <3>2
        <4>2. ~(f[k + 1] <= i) /\ f[k + 1] \in Nat /\ f[k + 1] = f[k] + len[k]
          BY <1>6, <1>7, <2>3, <4>1
        <4>3. QED
          BY <2>1, <4>2
      <3>3. QED
        BY <3>1, <3>2
    <2>5. first[k] \in Nat /\ Past(first, k) = f[k] + len[k] /\ first[k] = f[k] + gap[k]
          /\ f[k] \in Nat
      BY <1>6, <1>8
    <2>6. CASE first[k] <= i
      BY <2>4, <2>5, <2>6
    <2>7. CASE ~(first[k] <= i)
      <3>1. i < first[k]
        BY <2>1, <2>5, <2>7
      <3>2. k # 1
        <4>1. first[1] = f[1] + 0
          BY <1>6, <1>7
        <4>2. QED
          BY <1>7, <2>1, <3>1, <4>1
      <3>3. QED
        BY <1>9, <2>1, <2>3, <3>1, <3>2
    <2>8. QED
      BY <2>6, <2>7
  <1>13. QED
    <2>1. DOMAIN lines = 1..n
      BY <1>1
    <2>2. QED
      BY <1>1, <1>10, <1>11, <1>12, <2>1 DEF Layout
-----------------------------------------------------------------------------
(* The tokens of a line.                                                     *)

\* What the lexer makes of text that it does not complain of.
BreakToken(t) ==
  /\ t \in Tokens /\ t.kind = "Newline" /\ 1 <= t.from
  /\ BreakAt(t.from) > 0 /\ t.to = t.from + BreakAt(t.from)
EndToken(t) == t \in Tokens /\ t.kind = "EOF" /\ t.from = t.to
Lexeme(t)   == Shaped(t) \/ BreakToken(t) \/ EndToken(t)

\* There are no breaks in words and strings.
LEMMA NoBreakInside ==
  ASSUME source \in Seq(Units), NEW t, Shaped(t), NEW i \in Nat, Under(i, t)
  PROVE  i \in DOMAIN source /\ source[i] \notin LineBreaks
  <1> DEFINE s == Seg(t.from, t.to)
             j == i - t.from + 1
  <1>1. /\ t.from \in Nat \ {0} /\ t.to \in Nat /\ t.from < t.to /\ t.to <= Len(source) + 1
        /\ Len(s) = t.to - t.from /\ \A k \in 1..t.to - t.from : s[k] = source[t.from + k - 1]
        /\ s \in Seq(Units) /\ s[1] = source[t.from]
        /\ source[t.from] \in Letters \cup {"quote"}
    BY ShapedIs
  <1>2. t.from <= i /\ i < t.to /\ i \in DOMAIN source
    <2>1. t.from <= i /\ i < t.to
      BY DEF Under
    <2>2. QED
      BY <1>1, <2>1
  <1>3. j \in 1..t.to - t.from /\ t.from + j - 1 = i
    BY SMTT(40), <1>1, <1>2
  <1> HIDE DEF s, j
  <1>4. s[j] = source[i] /\ j \in 1..Len(s) /\ DOMAIN s = 1..Len(s)
    <2>1. s[j] = source[t.from + j - 1]
      BY <1>1, <1>3
    <2>2. QED
      BY <1>1, <1>3, <2>1
  <1>5. CASE t.to = t.from + 1
    <2>1. i = t.from
      BY <1>1, <1>2, <1>5
    <2>2. QED
      BY <1>1, <1>2, <2>1 DEF Letters, Keywords, LineBreaks
  <1>6. CASE IsName(s)
    BY <1>2, <1>4, <1>6 DEF IsName, WordParts, Letters, Keywords, LineBreaks
  <1>7. CASE IsString(s)
    <2>1. \/ j = 1 /\ s[j] = "quote"
          \/ j = Len(s) /\ s[j] = "quote"
          \/ j \in 2..Len(s) - 1
      <3>1. s[1] = "quote" /\ s[Len(s)] = "quote"
        BY <1>7 DEF IsString
      <3>2. Len(s) \in Nat
        BY <1>1
      <3>3. j = 1 \/ j = Len(s) \/ j \in 2..Len(s) - 1
        <4>1. \A a, b \in Nat : a \in 1..b => a = 1 \/ a = b \/ a \in 2..b - 1
          OBVIOUS
        <4>2. j \in Nat
          BY <1>4
        <4>3. QED
          BY <1>4, <3>2, <4>1, <4>2
      <3>4. QED
        BY <3>1, <3>3
    <2>2. j \in 2..Len(s) - 1 => s[j] \notin LineBreaks
      BY <1>7 DEF IsString
    <2>3. QED
      BY <1>2, <1>4, <2>1, <2>2 DEF LineBreaks
  <1>8. QED
    BY <1>5, <1>6, <1>7 DEF Shaped, s

LEMMA BreakTokenIs ==
  ASSUME source \in Seq(Units), NEW t, BreakToken(t)
  PROVE  /\ t.from \in Nat \ {0} /\ t.to \in Nat /\ t.from < t.to
         /\ t.to - 1 \in DOMAIN source /\ source[t.to - 1] = "lf"
         /\ \A i \in Nat : Under(i, t) => \/ i = t.to - 1
                                          \/ i = t.to - 2 /\ source[i] = "cr"
  <1>1. t.from \in Nat \ {0} /\ t.to \in Nat /\ t.to = t.from + BreakAt(t.from)
    BY DEF BreakToken, Tokens
  <1>2. \/ BreakAt(t.from) = 1 /\ UnitAt(t.from) = "lf"
        \/ BreakAt(t.from) = 2 /\ UnitAt(t.from) = "cr" /\ UnitAt(t.from + 1) = "lf"
    BY DEF BreakToken, BreakAt
  <1>3. /\ "lf" \in Units /\ "cr" \in Units
        /\ \A i \in Nat \ {0} : UnitAt(i) \in Units => i \in DOMAIN source /\ source[i] = UnitAt(i)
    BY UnitIsThere DEF Units, LineBreaks
  <1>4. CASE BreakAt(t.from) = 1 /\ UnitAt(t.from) = "lf"
    <2>1. t.to - 1 = t.from /\ t.from < t.to
      BY <1>1, <1>4
    <2>2. \A i \in Nat : Under(i, t) => i = t.to - 1
      BY <1>1, <2>1 DEF Under
    <2>3. QED
      BY <1>1, <1>3, <1>4, <2>1, <2>2
  <1>5. CASE BreakAt(t.from) = 2 /\ UnitAt(t.from) = "cr" /\ UnitAt(t.from + 1) = "lf"
    <2>1. t.to - 1 = t.from + 1 /\ t.to - 2 = t.from /\ t.from < t.to /\ t.from + 1 \in Nat \ {0}
      BY <1>1, <1>5
    <2>2. \A i \in Nat : Under(i, t) => i = t.to - 1 \/ i = t.to - 2
      BY <1>1, <2>1 DEF Under
    <2>3. QED
      BY <1>1, <1>3, <1>5, <2>1, <2>2
  <1>6. QED
    BY <1>2, <1>4, <1>5

\* A token that has a unit of a line is in the line.
LEMMA InsideLine ==
  ASSUME source \in Seq(Units), NEW l, NEW x, NEW y, LineAt(l, x, y), NEW t, Lexeme(t),
         NEW i \in Nat, x <= i, i < y, Under(i, t)
  PROVE  Shaped(t) /\ x <= t.from /\ t.to <= y
  <1>1. /\ x \in Nat \ {0} /\ y \in Nat /\ Len(l) \in Nat /\ y = x + Len(l) /\ y <= Len(source) + 1
        /\ l \in Seq(Units \ {"lf"}) /\ Len(source) \in Nat /\ DOMAIN source = 1..Len(source)
    BY DEF LineAt
  <1>2. \A k \in Nat : x <= k /\ k < y => source[k] = l[k - x + 1] /\ source[k] # "lf"
    <2> SUFFICES ASSUME NEW k \in Nat, x <= k, k < y
                 PROVE  source[k] = l[k - x + 1] /\ source[k] # "lf"
      OBVIOUS
    <2>1. k - x + 1 \in 1..Len(l) /\ x + (k - x + 1) - 1 = k
      BY <1>1
    <2>2. source[x + (k - x + 1) - 1] = l[k - x + 1]
      BY <2>1 DEF LineAt
    <2>3. l[k - x + 1] \in Units \ {"lf"}
      BY <1>1, <2>1
    <2>4. QED
      BY <2>1, <2>2, <2>3
  <1>3. /\ x # 1 => source[x - 1] = "lf"
        /\ y <= Len(source) => BreakAt(y) > 0 /\ (l # <<>> => l[Len(l)] # "cr")
    BY DEF LineAt
  <1>4. ~EndToken(t)
    <2>1. t.from <= i /\ i < t.to
      BY DEF Under
    <2>2. QED
      BY <1>1, <2>1 DEF EndToken, Tokens
  <1>5. ~BreakToken(t)
    <2> SUFFICES ASSUME BreakToken(t)  PROVE FALSE
      OBVIOUS
    <2>1. /\ t.to \in Nat /\ t.to - 1 \in DOMAIN source /\ source[t.to - 1] = "lf"
          /\ i = t.to - 1 \/ (i = t.to - 2 /\ source[i] = "cr")
      BY BreakTokenIs
    <2>2. source[i] # "lf"
      BY <1>2
    <2>3. i = t.to - 2 /\ source[i] = "cr" /\ i + 1 = t.to - 1 /\ i + 1 \in Nat
      BY <2>1, <2>2
    <2>4. ~(i + 1 < y)
      BY SMTT(40), <1>1, <1>2, <2>1, <2>3
    <2>5. i + 1 = y /\ y <= Len(source)
      BY SMTT(40), <1>1, <2>1, <2>3, <2>4
    <2>6. l # <<>> /\ l[Len(l)] = "cr"
      <3>1. i - x + 1 = Len(l) /\ Len(l) # 0
        BY <1>1, <2>5
      <3>2. QED
        BY <1>1, <1>2, <2>3, <3>1
    <2>7. QED
      BY <1>3, <2>5, <2>6
  <1>6. Shaped(t)
    BY <1>4, <1>5 DEF Lexeme
  <1>7. t.from \in Nat \ {0} /\ t.to \in Nat /\ t.to <= Len(source) + 1 /\ t.from <= i /\ i < t.to
    BY <1>6, ShapedIs DEF Under
  <1>8. \A k \in Nat : Under(k, t) => source[k] \notin LineBreaks
    BY <1>6, NoBreakInside
  <1>9. x <= t.from
    <2> SUFFICES ASSUME t.from < x  PROVE FALSE
      BY <1>1, <1>7
    <2>1. x - 1 \in Nat /\ x # 1 /\ t.from <= x - 1 /\ x - 1 < t.to
      BY <1>1, <1>7
    <2>2. source[x - 1] \notin LineBreaks
      BY <1>8, <2>1 DEF Under
    <2>3. QED
      BY <1>3, <2>1, <2>2 DEF LineBreaks
  <1>10. t.to <= y
    <2> SUFFICES ASSUME y < t.to  PROVE FALSE
      BY <1>1, <1>7
    <2>1. t.from <= y /\ y <= Len(source)
      BY <1>1, <1>7
    <2>2. source[y] \notin LineBreaks /\ BreakAt(y) > 0
      BY <1>1, <1>3, <1>8, <2>1 DEF Under
    <2>3. ~(y > Len(source))
      BY <1>1, <2>1
    <2>4. QED
      BY <2>2, <2>3 DEF BreakAt, UnitAt, LineBreaks
  <1>11. QED
    BY <1>6, <1>9, <1>10

\* The units from x up to y are blanks and these tokens.
LexOf(T, x, y) ==
  /\ \A t \in T : Shaped(t) /\ x <= t.from /\ t.to <= y
  /\ \A t, u \in T : t = u \/ t.to <= u.from \/ u.to <= t.from
  /\ \A i \in x..y - 1 : source[i] = "blank" \/ \E t \in T : Under(i, t)

\* A token that starts where another way to lex the text has a token, if both ways
\* agree on what is before it.
LEMMA StartsInBoth ==
  ASSUME source \in Seq(Units), NEW T, NEW U, \A u \in U : Shaped(u),
         \A t, u \in T : t = u \/ t.to <= u.from \/ u.to <= t.from,
         NEW t \in T, Shaped(t), source[t.from] = "blank" \/ \E u \in U : Under(t.from, u),
         \A u \in U : u.from < t.from => u \in T
  PROVE  t \in U
  <1>1. /\ t.from \in Nat /\ t.to \in Nat /\ t.from < t.to
        /\ source[t.from] \in Letters \cup {"quote"}
    BY ShapedIs
  <1>2. PICK u \in U : Under(t.from, u)
    BY <1>1 DEF Letters, Keywords
  <1>3. u.from <= t.from /\ t.from < u.to /\ u.from \in Nat /\ u.to \in Nat
    BY <1>2, ShapedIs DEF Under
  <1>4. CASE u.from = t.from
    <2>1. u = t
      BY <1>4, OneTokenFromAPlace
    <2>2. QED
      BY <2>1
  <1>5. CASE u.from < t.from
    <2>1. u \in T
      BY <1>5
    <2>2. ~(t.to <= u.from) /\ ~(u.to <= t.from)
      BY <1>1, <1>3
    <2>3. u = t
      BY <2>1, <2>2
    <2>4. QED
      BY <2>3
  <1>6. QED
    BY <1>1, <1>3, <1>4, <1>5

\* Text can be lexed in one way only, up to where it is.
LEMMA LexedOneWay ==
  ASSUME source \in Seq(Units), NEW x \in Nat, NEW q \in Nat, NEW y \in Nat, q <= y,
         NEW T, LexOf(T, x, y), NEW U, LexOf(U, x, q)
  PROVE  /\ U \subseteq T
         /\ \A t \in T : t.from < q => t \in U
  <1> DEFINE Same(p) == /\ \A u \in U : u.from = p => u \in T
                        /\ \A t \in T : t.from = p => t \in U
             Bad == {p \in x..q - 1 : ~Same(p)}
  <1>1. /\ \A u \in U : Shaped(u) /\ x <= u.from /\ u.to <= q
        /\ \A t \in T : Shaped(t) /\ x <= t.from /\ t.to <= y
        /\ \A t, u \in T : t = u \/ t.to <= u.from \/ u.to <= t.from
        /\ \A t, u \in U : t = u \/ t.to <= u.from \/ u.to <= t.from
        /\ \A i \in x..q - 1 : source[i] = "blank" \/ \E u \in U : Under(i, u)
        /\ \A i \in x..y - 1 : source[i] = "blank" \/ \E t \in T : Under(i, t)
    BY DEF LexOf
  <1>2. /\ \A u \in U : u.from \in Nat /\ u.to \in Nat /\ u.from < u.to
        /\ \A t \in T : t.from \in Nat
    BY <1>1, ShapedIs
  <1>3. ASSUME Bad # {}  PROVE FALSE
    <2>1. PICK p \in Bad : \A y1 \in Bad : p <= y1
      <3>1. Bad \in SUBSET Nat
        OBVIOUS
      <3> HIDE DEF Bad
      <3>2. QED
        BY <1>3, <3>1, Smallest
    <2>2. p \in x..q - 1 /\ p \in x..y - 1 /\ ~Same(p)
      BY <2>1
    <2>3. ASSUME NEW r \in Nat, x <= r, r < p  PROVE Same(r)
      <3>1. r \in x..q - 1 /\ ~(p <= r)
        BY <2>2, <2>3
      <3>2. r \notin Bad
        <4> HIDE DEF Bad
        <4>1. QED
          BY <2>1, <3>1
      <3> HIDE DEF Same
      <3>3. QED
        BY <3>1, <3>2
    <2>4. /\ \A u \in U : u.from < p => u \in T
          /\ \A t \in T : t.from < p => t \in U
      BY <1>1, <1>2, <2>3
    <2> HIDE DEF Same, Bad
    <2>5. ASSUME NEW u \in U, u.from = p  PROVE u \in T
      BY <1>1, <2>2, <2>4, <2>5, StartsInBoth
    <2>6. ASSUME NEW t \in T, t.from = p  PROVE t \in U
      BY <1>1, <2>2, <2>4, <2>6, StartsInBoth
    <2>7. Same(p)
      BY <2>5, <2>6 DEF Same
    <2>8. QED
      BY <2>2, <2>7
  <1>4. \A p \in x..q - 1 : Same(p)
    BY <1>3
  <1> HIDE DEF Same
  <1>5. ASSUME NEW u \in U  PROVE u \in T
    <2>1. u.from \in x..q - 1
      BY <1>1, <1>2
    <2>2. QED
      BY <1>4, <2>1 DEF Same
  <1>6. ASSUME NEW t \in T, t.from < q  PROVE t \in U
    <2>1. t.from \in x..q - 1
      BY <1>1, <1>2, <1>6
    <2>2. QED
      BY <1>4, <2>1 DEF Same
  <1>7. QED
    BY <1>5, <1>6

LEMMA LexedOnce ==
  ASSUME source \in Seq(Units), NEW x \in Nat, NEW y \in Nat,
         NEW T, LexOf(T, x, y), NEW U, LexOf(U, x, y)
  PROVE  T = U
  <1>1. y <= y
    OBVIOUS
  <1>2. \A t \in T : t.from < y
    <2>1. \A t \in T : Shaped(t) /\ t.to <= y
      BY DEF LexOf
    <2>2. QED
      BY <2>1, ShapedIs
  <1>3. U \subseteq T /\ \A t \in T : t.from < y => t \in U
    BY <1>1, LexedOneWay
  <1>4. QED
    BY <1>2, <1>3

\* What the lexer has made of a line, up to p.
Ordered ==
  /\ tokens \in Seq(Tokens)
  /\ \A s, t \in DOMAIN tokens : s < t => tokens[s].to <= tokens[t].from
TokensIn(x, p) ==
  {tokens[t] : t \in {s \in DOMAIN tokens :
     Kind(s) \notin LineEnds /\ x <= tokens[s].from /\ tokens[s].to <= p}}

LEMMA LineIsLexed ==
  ASSUME source \in Seq(Units), NEW l, NEW x, NEW y, LineAt(l, x, y), NEW p \in x..y,
         Ordered, \A t \in DOMAIN tokens : Lexeme(tokens[t]),
         p = y \/ \A t \in DOMAIN tokens : tokens[t].to <= p,
         \A i \in x..p - 1 : source[i] = "blank" \/ \E t \in DOMAIN tokens : Under(i, tokens[t])
  PROVE  LexOf(TokensIn(x, p), x, p)
  <1>1. x \in Nat \ {0} /\ y \in Nat /\ p \in Nat /\ p <= y /\ DOMAIN tokens \subseteq Nat
    BY DEF LineAt, Ordered
  <1>2. ASSUME NEW t \in DOMAIN tokens, Kind(t) \notin LineEnds
        PROVE  Shaped(tokens[t])
    BY <1>2 DEF Lexeme, BreakToken, EndToken, Kind, LineEnds
  <1>3. \A t \in TokensIn(x, p) : Shaped(t) /\ x <= t.from /\ t.to <= p
    BY <1>2 DEF TokensIn
  <1>4. ASSUME NEW t \in TokensIn(x, p), NEW u \in TokensIn(x, p)
        PROVE  t = u \/ t.to <= u.from \/ u.to <= t.from
    <2>1. PICK a \in DOMAIN tokens : t = tokens[a]
      BY DEF TokensIn
    <2>2. PICK b \in DOMAIN tokens : u = tokens[b]
      BY DEF TokensIn
    <2>3. a = b \/ a < b \/ b < a
      BY <1>1, <2>1, <2>2
    <2>4. QED
      BY <2>1, <2>2, <2>3 DEF Ordered
  <1>5. ASSUME NEW i \in x..p - 1, source[i] # "blank"
        PROVE  \E t \in TokensIn(x, p) : Under(i, t)
    <2>1. PICK t \in DOMAIN tokens : Under(i, tokens[t])
      BY <1>5
    <2>2. i \in Nat /\ x <= i /\ i < y
      BY <1>1
    <2>3. Shaped(tokens[t]) /\ x <= tokens[t].from /\ tokens[t].to <= y
      BY <2>1, <2>2, InsideLine
    <2>4. Kind(t) \notin LineEnds /\ tokens[t].to <= p
      BY <2>3, ShapedIs DEF Kind
    <2>5. QED
      BY <2>1, <2>3, <2>4 DEF TokensIn
  <1>6. QED
    BY <1>3, <1>4, <1>5 DEF LexOf

-----------------------------------------------------------------------------
(* What a line is, by the tokens that it is lexed to.                        *)

Blanks(p, q) == \A i \in p..q - 1 : source[i] = "blank"

\* A piece of a line, and the units of the source that it is.
LEMMA PieceIs ==
  ASSUME source \in Seq(Units), NEW l, NEW x, NEW y, LineAt(l, x, y),
         NEW i \in Nat, NEW j \in Nat, i <= j, j <= Len(l), NEW a, a = x + i, NEW b, b = x + j
  PROVE  /\ Piece(l, i, j) = Seg(a, b)
         /\ IsBlank(Piece(l, i, j)) <=> Blanks(a, b)
  <1>1. /\ x \in Nat \ {0} /\ y \in Nat /\ Len(l) \in Nat /\ y = x + Len(l) /\ y <= Len(source) + 1
        /\ l \in Seq(Units) /\ Len(source) \in Nat
        /\ \A k \in 1..Len(l) : source[x + k - 1] = l[k]
    <2>1. \A s \in Seq(Units \ {"lf"}) : s \in Seq(Units)
      OBVIOUS
    <2>2. QED
      BY <2>1 DEF LineAt
  <1> DEFINE s == Piece(l, i, j)
             t == Seg(a, b)
             n == j - i
  <1>2. /\ n \in Nat /\ b - a = n /\ j - (i + 1) + 1 = n
        /\ a \in Nat \ {0} /\ b \in Nat /\ a <= b /\ b <= Len(source) + 1 /\ b = a + n
    BY <1>1
  <1>3. t \in Seq(Units) /\ Len(t) = n /\ \A k \in 1..n : t[k] = source[a + k - 1]
    <2> HIDE DEF n
    <2>1. /\ t \in Seq(Units) /\ Len(t) = b - a
          /\ \A k \in 1..b - a : t[k] = source[a + k - 1]
      BY <1>2, SegIs
    <2>2. QED
      BY <1>2, <2>1
  <1>4. s \in Seq(Units) /\ Len(s) = n /\ \A k \in 1..n : s[k] = l[i + k]
    <2>1. \A k \in i + 1..j : l[k] \in Units
      <3>1. \A k \in i + 1..j : k \in 1..Len(l)
        BY <1>1
      <3>2. QED
        BY <1>1, <3>1
    <2>2. /\ s \in Seq(Units) /\ Len(s) = IF i + 1 <= j THEN j - (i + 1) + 1 ELSE 0
          /\ \A k \in 1..j - (i + 1) + 1 : s[k] = l[i + 1 + k - 1]
      BY <1>1, <2>1, SubSeqProperties DEF Piece
    <2>3. ~(i + 1 <= j) => n = 0
      BY <1>2
    <2>4. \A k \in 1..n : i + 1 + k - 1 = i + k
      OBVIOUS
    <2>5. QED
      BY <1>2, <2>2, <2>3, <2>4
  <1>5. \A k \in 1..n : s[k] = t[k] /\ t[k] = source[a + k - 1]
    <2> TAKE k \in 1..n
    <2>1. i + k \in 1..Len(l) /\ x + (i + k) - 1 = a + k - 1
      BY <1>1
    <2>2. QED
      BY <1>1, <1>3, <1>4, <2>1
  <1> HIDE DEF s, t, n
  <1>6. s = t
    BY <1>3, <1>4, <1>5, SeqEqual
  <1>7. IsBlank(s) <=> Blanks(a, b)
    <2>1. DOMAIN s = 1..n
      BY <1>4
    <2>2. ASSUME NEW p \in a..b - 1  PROVE \E k \in 1..n : p = a + k - 1
      <3>1. \A d, e, m \in Nat : e = d + m => \A q \in d..e - 1 :
              q - d + 1 \in 1..m /\ q = d + (q - d + 1) - 1
        OBVIOUS
      <3>2. a \in Nat /\ b \in Nat /\ n \in Nat /\ b = a + n
        BY <1>2
      <3> HIDE DEF n
      <3>3. p - a + 1 \in 1..n /\ p = a + (p - a + 1) - 1
        BY ONLY <3>1, <3>2, p \in a..b - 1
      <3>4. QED
        BY <3>3
    <2>3. \A k \in 1..n : a + k - 1 \in a..b - 1
      <3>1. \A d, e, m \in Nat : e = d + m => \A k \in 1..m : d + k - 1 \in d..e - 1
        OBVIOUS
      <3>2. QED
        BY <1>2, <3>1
    <2>4. ASSUME IsBlank(s), NEW p \in a..b - 1  PROVE source[p] = "blank"
      <3>1. PICK k \in 1..n : p = a + k - 1
        BY <2>2
      <3>2. s[k] = "blank" /\ s[k] = source[a + k - 1]
        BY <1>5, <2>1, <2>4 DEF IsBlank
      <3>3. QED
        BY <3>1, <3>2
    <2>5. ASSUME Blanks(a, b), NEW k \in 1..n  PROVE s[k] = "blank"
      <3>1. a + k - 1 \in a..b - 1
        BY <2>3
      <3>2. source[a + k - 1] = "blank"
        BY <2>5, <3>1 DEF Blanks
      <3>3. QED
        BY <1>5, <3>2
    <2>6. IsBlank(s) <=> \A k \in 1..n : s[k] = "blank"
      BY <2>1 DEF IsBlank
    <2>7. Blanks(a, b) <=> \A p \in a..b - 1 : source[p] = "blank"
      BY DEF Blanks
    <2>8. QED
      BY <2>4, <2>5, <2>6, <2>7
  <1>8. QED
    BY <1>6, <1>7 DEF s, t

\* What the kind of a token says of its text.
LEMMA ShapedAs ==
  ASSUME source \in Seq(Units), NEW t, Shaped(t)
  PROVE  /\ t.kind = "StringLiteral" => IsString(Seg(t.from, t.to))
         /\ t.kind = "Identifier" => IsName(Seg(t.from, t.to))
         /\ \A w \in Keywords : t.kind = KeywordKinds[w] =>
              /\ source[t.from] = w /\ t.to = t.from + 1 /\ UnitAt(t.to) \notin WordParts
  <1>1. /\ \A w \in Keywords : KeywordKinds[w] \notin {"StringLiteral", "Identifier"}
        /\ \A w, v \in Keywords : KeywordKinds[w] = KeywordKinds[v] => w = v
    BY DEF KeywordKinds, Keywords
  <1>2. QED
    BY <1>1 DEF Shaped

LEMMA BlankLexes ==
  ASSUME source \in Seq(Units), NEW l, NEW x, NEW y, LineAt(l, x, y)
  PROVE  IsBlank(l) <=> LexOf({}, x, y)
  <1>1. /\ x \in Nat \ {0} /\ y \in Nat /\ Len(l) \in Nat /\ y = x + Len(l) /\ DOMAIN l = 1..Len(l)
        /\ \A k \in 1..Len(l) : source[x + k - 1] = l[k]
    BY DEF LineAt
  <1>2. \A i \in x..y - 1 : i - x + 1 \in 1..Len(l) /\ x + (i - x + 1) - 1 = i
    BY <1>1
  <1>3. \A k \in 1..Len(l) : x + k - 1 \in x..y - 1
    BY <1>1
  <1>4. ASSUME IsBlank(l)  PROVE LexOf({}, x, y)
    BY <1>1, <1>2, <1>4 DEF IsBlank, LexOf
  <1>5. ASSUME LexOf({}, x, y)  PROVE IsBlank(l)
    BY <1>1, <1>3, <1>5 DEF IsBlank, LexOf
  <1>6. QED
    BY <1>4, <1>5

\* Tokens, from the text that makes them.
LEMMA TextIsToken ==
  ASSUME source \in Seq(Units), NEW p \in Nat \ {0}, NEW q \in Nat, p <= q, q <= Len(source) + 1
  PROVE  /\ IsString(Seg(p, q)) =>
              /\ p < q /\ source[p] = "quote" /\ Shaped(Token("StringLiteral", p, q))
              /\ UnitAt(p) \notin WordParts
         /\ IsName(Seg(p, q)) /\ UnitAt(q) \notin WordParts =>
              p < q /\ Shaped(Token("Identifier", p, q))
         /\ q = p + 1 /\ source[p] \in Keywords /\ UnitAt(q) \notin WordParts =>
              Shaped(Token(KeywordKinds[source[p]], p, q))
  <1>1. /\ Seg(p, q) \in Seq(Units) /\ Len(Seg(p, q)) = q - p
        /\ \A i \in 1..q - p : Seg(p, q)[i] = source[p + i - 1]
    BY SegIs
  <1>2. p < q => Seg(p, q)[1] = source[p] /\ ~(p > Len(source))
    <2>1. p < q => 1 \in 1..q - p /\ p + 1 - 1 = p /\ ~(p > Len(source))
      OBVIOUS
    <2>2. QED
      BY <1>1, <2>1
  <1>3. \A kind \in TokenKinds : /\ Token(kind, p, q) \in Tokens
                                 /\ Token(kind, p, q).from = p /\ Token(kind, p, q).to = q
                                 /\ Token(kind, p, q).kind = kind
    BY DEF Token, Tokens
  <1>4. 1 <= p
    OBVIOUS
  <1>5. ASSUME IsString(Seg(p, q))
        PROVE  /\ p < q /\ source[p] = "quote" /\ Shaped(Token("StringLiteral", p, q))
               /\ UnitAt(p) \notin WordParts
    <2>1. p < q /\ source[p] = "quote"
      <3>1. Len(Seg(p, q)) >= 2 /\ Seg(p, q)[1] = "quote"
        BY <1>5 DEF IsString
      <3>2. p < q
        BY <1>1, <3>1
      <3>3. QED
        BY <1>2, <3>1, <3>2
    <2>2. Shaped(Token("StringLiteral", p, q))
      BY <1>3, <1>4, <1>5, <2>1 DEF Shaped, TokenKinds
    <2>3. UnitAt(p) = "quote"
      BY <1>2, <2>1 DEF UnitAt
    <2>4. QED
      BY <2>1, <2>2, <2>3 DEF WordParts, Letters, Keywords
  <1>6. ASSUME IsName(Seg(p, q)), UnitAt(q) \notin WordParts
        PROVE  p < q /\ Shaped(Token("Identifier", p, q))
    <2>1. Len(Seg(p, q)) # 0
      BY <1>1, <1>6 DEF IsName
    <2>2. p < q
      BY <1>1, <2>1
    <2>3. QED
      BY <1>3, <1>4, <1>6, <2>2 DEF Shaped, TokenKinds
  <1>7. ASSUME q = p + 1, source[p] \in Keywords, UnitAt(q) \notin WordParts
        PROVE  Shaped(Token(KeywordKinds[source[p]], p, q))
    <2>1. KeywordKinds[source[p]] \in TokenKinds
      BY <1>7, KeywordKindsAre DEF DeclarationKinds, TokenKinds
    <2>2. p < q
      BY <1>7
    <2>3. QED
      BY <1>3, <1>4, <1>7, <2>1, <2>2 DEF Shaped
  <1>8. QED
    BY <1>5, <1>6, <1>7

\* The places of the parts of a declaration.
GoalAt(x, a, p, q, y) ==
  /\ x <= a /\ a < p /\ p <= q /\ q <= y /\ source[a] = "goal"
  /\ Blanks(x, a) /\ Blanks(a + 1, p) /\ IsString(Seg(p, q)) /\ Blanks(q, y)
NamedAt(w, x, a, p, q, r, s, y) ==
  /\ x <= a /\ a + 1 < p /\ p <= q /\ q <= r /\ r <= s /\ s <= y /\ source[a] = w
  /\ Blanks(x, a) /\ Blanks(a + 1, p) /\ IsName(Seg(p, q)) /\ Blanks(q, r)
  /\ IsString(Seg(r, s)) /\ Blanks(s, y)

LEMMA GoalPlaces ==
  ASSUME source \in Seq(Units), NEW l, NEW x, NEW y, LineAt(l, x, y)
  PROVE  AcceptsGoal(l) <=> \E a, p, q \in Nat : GoalAt(x, a, p, q, y)
  <1>1. /\ x \in Nat \ {0} /\ y \in Nat /\ Len(l) \in Nat /\ y = x + Len(l) /\ x = x + 0
        /\ \A k \in 1..Len(l) : source[x + k - 1] = l[k]
    BY DEF LineAt
  <1>2. \A i, j \in Nat : i <= j /\ j <= Len(l) =>
          /\ Piece(l, i, j) = Seg(x + i, x + j)
          /\ IsBlank(Piece(l, i, j)) <=> Blanks(x + i, x + j)
    BY PieceIs
  <1>3. \A i \in Nat : i + 1 <= Len(l) => source[x + i] = l[i + 1]
    <2> SUFFICES ASSUME NEW i \in Nat, i + 1 <= Len(l)  PROVE source[x + i] = l[i + 1]
      OBVIOUS
    <2>1. i + 1 \in 1..Len(l) /\ x + (i + 1) - 1 = x + i
      BY <1>1
    <2>2. QED
      BY <1>1, <2>1
  <1>4. ASSUME NEW i \in Nat, NEW j \in Nat, NEW k \in Nat, i < j, j <= k, k <= Len(l)
        PROVE  (/\ l[i + 1] = "goal"
                /\ IsBlank(Piece(l, 0, i)) /\ IsBlank(Piece(l, i + 1, j))
                /\ IsString(Piece(l, j, k)) /\ IsBlank(Piece(l, k, Len(l))))
               <=> GoalAt(x, x + i, x + j, x + k, y)
    <2>1. /\ 0 <= i /\ i + 1 <= j /\ i <= Len(l) /\ j <= Len(l) /\ i + 1 <= Len(l)
          /\ Len(l) <= Len(l) /\ i + 1 \in Nat
          /\ x <= x + i /\ x + i < x + j /\ x + j <= x + k /\ x + k <= y
          /\ x + (i + 1) = x + i + 1
      BY <1>1, <1>4
    <2>2. /\ IsBlank(Piece(l, 0, i)) <=> Blanks(x, x + i)
          /\ IsBlank(Piece(l, i + 1, j)) <=> Blanks(x + i + 1, x + j)
          /\ Piece(l, j, k) = Seg(x + j, x + k)
          /\ IsBlank(Piece(l, k, Len(l))) <=> Blanks(x + k, y)
          /\ source[x + i] = l[i + 1]
      BY <1>1, <1>2, <1>3, <1>4, <2>1
    <2>3. QED
      BY <2>1, <2>2 DEF GoalAt
  <1>5. ASSUME AcceptsGoal(l)  PROVE \E a, p, q \in Nat : GoalAt(x, a, p, q, y)
    <2>1. PICK i, j, k \in 0..Len(l) :
            /\ i < j /\ j <= k /\ l[i + 1] = "goal"
            /\ IsBlank(Piece(l, 0, i)) /\ IsBlank(Piece(l, i + 1, j))
            /\ IsString(Piece(l, j, k)) /\ IsBlank(Piece(l, k, Len(l)))
      BY <1>5 DEF AcceptsGoal
    <2>2. i \in Nat /\ j \in Nat /\ k \in Nat /\ k <= Len(l)
      BY <1>1
    <2>3. GoalAt(x, x + i, x + j, x + k, y)
      BY <1>4, <2>1, <2>2
    <2>4. x + i \in Nat /\ x + j \in Nat /\ x + k \in Nat
      BY <1>1, <2>2
    <2>5. QED
      BY <2>3, <2>4
  <1>6. ASSUME NEW a \in Nat, NEW p \in Nat, NEW q \in Nat, GoalAt(x, a, p, q, y)  PROVE AcceptsGoal(l)
    <2> DEFINE i == a - x
               j == p - x
               k == q - x
    <2>1. /\ i \in Nat /\ j \in Nat /\ k \in Nat /\ i < j /\ j <= k /\ k <= Len(l)
          /\ a = x + i /\ p = x + j /\ q = x + k
      <3>1. x <= a /\ a < p /\ p <= q /\ q <= y
        BY <1>6 DEF GoalAt
      <3>2. QED
        BY <1>1, <3>1
    <2> HIDE DEF i, j, k
    <2>2. /\ l[i + 1] = "goal"
          /\ IsBlank(Piece(l, 0, i)) /\ IsBlank(Piece(l, i + 1, j))
          /\ IsString(Piece(l, j, k)) /\ IsBlank(Piece(l, k, Len(l)))
      BY <1>4, <1>6, <2>1
    <2>3. i \in 0..Len(l) /\ j \in 0..Len(l) /\ k \in 0..Len(l)
      BY <1>1, <2>1
    <2>4. QED
      BY <2>1, <2>2, <2>3 DEF AcceptsGoal
  <1>7. QED
    BY <1>5, <1>6

LEMMA NamedPlaces ==
  ASSUME source \in Seq(Units), NEW l, NEW x, NEW y, LineAt(l, x, y), NEW w
  PROVE  AcceptsNamed(w, l) <=> \E a, p, q, r, s \in Nat : NamedAt(w, x, a, p, q, r, s, y)
  <1>1. /\ x \in Nat \ {0} /\ y \in Nat /\ Len(l) \in Nat /\ y = x + Len(l) /\ y <= Len(source) + 1
        /\ x = x + 0 /\ \A k \in 1..Len(l) : source[x + k - 1] = l[k]
    BY DEF LineAt
  <1>2. \A i, j \in Nat : i <= j /\ j <= Len(l) =>
          /\ Piece(l, i, j) = Seg(x + i, x + j)
          /\ IsBlank(Piece(l, i, j)) <=> Blanks(x + i, x + j)
    BY PieceIs
  <1>3. \A i \in Nat : i + 1 <= Len(l) => source[x + i] = l[i + 1]
    <2> SUFFICES ASSUME NEW i \in Nat, i + 1 <= Len(l)  PROVE source[x + i] = l[i + 1]
      OBVIOUS
    <2>1. i + 1 \in 1..Len(l) /\ x + (i + 1) - 1 = x + i
      BY <1>1
    <2>2. QED
      BY <1>1, <2>1
  <1> DEFINE Parts(i, j, k, m, n) ==
               /\ l[i + 1] = w /\ IsBlank(Piece(l, 0, i)) /\ IsBlank(Piece(l, i + 1, j))
               /\ IsName(Piece(l, j, k)) /\ IsBlank(Piece(l, k, m))
               /\ IsString(Piece(l, m, n)) /\ IsBlank(Piece(l, n, Len(l)))
  <1>4. ASSUME NEW i \in Nat, NEW j \in Nat, NEW k \in Nat, NEW m \in Nat, NEW n \in Nat,
               i + 1 < j, j <= k, k <= m, m <= n, n <= Len(l)
        PROVE  Parts(i, j, k, m, n) <=> NamedAt(w, x, x + i, x + j, x + k, x + m, x + n, y)
    <2>1. /\ 0 <= i /\ i + 1 <= j /\ i <= Len(l) /\ j <= Len(l) /\ i + 1 <= Len(l)
          /\ k <= Len(l) /\ m <= Len(l) /\ Len(l) <= Len(l) /\ i + 1 \in Nat
          /\ x <= x + i /\ x + i + 1 < x + j /\ x + j <= x + k /\ x + k <= x + m
          /\ x + m <= x + n /\ x + n <= y /\ x + (i + 1) = x + i + 1
      <3>1. \A e \in Nat : n <= e =>
              /\ 0 <= i /\ i + 1 <= j /\ i <= e /\ j <= e /\ i + 1 <= e
              /\ k <= e /\ m <= e /\ e <= e /\ i + 1 \in Nat
        BY ONLY <1>4, i \in Nat, j \in Nat, k \in Nat, m \in Nat, n \in Nat
      <3>2. \A b, e \in Nat : n <= e =>
              /\ b <= b + i /\ b + i + 1 < b + j /\ b + j <= b + k /\ b + k <= b + m
              /\ b + m <= b + n /\ b + n <= b + e /\ b + (i + 1) = b + i + 1
        BY ONLY <1>4, i \in Nat, j \in Nat, k \in Nat, m \in Nat, n \in Nat
      <3>3. QED
        BY <1>1, <1>4, <3>1, <3>2
    <2>2. /\ IsBlank(Piece(l, 0, i)) <=> Blanks(x, x + i)
          /\ IsBlank(Piece(l, i + 1, j)) <=> Blanks(x + i + 1, x + j)
          /\ Piece(l, j, k) = Seg(x + j, x + k)
          /\ IsBlank(Piece(l, k, m)) <=> Blanks(x + k, x + m)
          /\ Piece(l, m, n) = Seg(x + m, x + n)
          /\ IsBlank(Piece(l, n, Len(l))) <=> Blanks(x + n, y)
          /\ source[x + i] = l[i + 1]
      BY SMTT(40), <1>1, <1>2, <1>3, <1>4, <2>1
    <2>3. QED
      BY <2>1, <2>2 DEF NamedAt
  <1>5. AcceptsNamed(w, l) <=>
          \E i, j, k, m, n \in Nat :
            /\ i + 1 < j /\ j <= k /\ k <= m /\ m <= n /\ n <= Len(l)
            /\ Parts(i, j, k, m, n)
    <2>1. ASSUME AcceptsNamed(w, l)
          PROVE  \E i, j, k, m, n \in Nat :
                   /\ i + 1 < j /\ j <= k /\ k <= m /\ m <= n /\ n <= Len(l)
                   /\ Parts(i, j, k, m, n)
      <3>1. PICK i \in 0..Len(l) - 1 :
              \E j \in i + 2..Len(l) : \E k \in j + 1..Len(l) :
              \E m \in k..Len(l) : \E n \in m..Len(l) : Parts(i, j, k, m, n)
        BY <2>1 DEF AcceptsNamed
      <3> HIDE DEF Parts
      <3>2. PICK j \in i + 2..Len(l), k \in Int, m \in Int, n \in Int :
              k \in j + 1..Len(l) /\ m \in k..Len(l) /\ n \in m..Len(l) /\ Parts(i, j, k, m, n)
        <4>1. \A b, e : b..e \subseteq Int
          OBVIOUS
        <4>2. QED
          BY <3>1, <4>1
      <3>3. /\ i \in Nat /\ j \in Nat /\ k \in Nat /\ m \in Nat /\ n \in Nat
            /\ i + 1 < j /\ j <= k /\ k <= m /\ m <= n /\ n <= Len(l)
        BY <1>1, <3>2
      <3>4. QED
        BY <3>2, <3>3
    <2>2. ASSUME NEW i \in Nat, NEW j \in Nat, NEW k \in Nat, NEW m \in Nat, NEW n \in Nat,
                 i + 1 < j, j <= k, k <= m, m <= n, n <= Len(l), Parts(i, j, k, m, n)
          PROVE  AcceptsNamed(w, l)
      <3>1. j < k
        <4>1. Piece(l, j, k) = Seg(x + j, x + k)
          BY <1>1, <1>2, <2>2
        <4> DEFINE b == x + j
                   e == x + k
        <4>2. b \in Nat \ {0} /\ e \in Nat /\ b <= e /\ e <= Len(source) + 1
          <5>1. \A z, u \in Nat : k <= z /\ x + z <= u => x + k <= u
            BY <1>1, <2>2
          <5>2. n <= Len(l) /\ k <= Len(l) /\ x + Len(l) <= Len(source) + 1
                /\ Len(source) + 1 \in Nat
            BY <1>1, <2>2
          <5>3. e <= Len(source) + 1
            BY <1>1, <5>1, <5>2
          <5>4. QED
            BY SMTT(40), <1>1, <2>2, <5>3
        <4>3. k = j => b = e
          OBVIOUS
        <4> HIDE DEF b, e
        <4>4. Len(Seg(b, e)) = e - b /\ Seg(b, e) \in Seq(Units)
          BY <4>2, SegIs
        <4>5. Seg(b, e) # <<>>
          BY <2>2, <4>1 DEF IsName, b, e
        <4>6. e # b
          BY <4>2, <4>4, <4>5
        <4>7. QED
          BY <2>2, <4>3, <4>6
      <3>2. /\ i \in 0..Len(l) - 1 /\ j \in i + 2..Len(l) /\ k \in j + 1..Len(l)
            /\ m \in k..Len(l) /\ n \in m..Len(l)
        <4>1. \A e \in Nat : n <= e =>
                /\ i \in 0..e - 1 /\ j \in i + 2..e /\ k \in j + 1..e /\ m \in k..e /\ n \in m..e
          BY <2>2, <3>1
        <4>2. QED
          BY <1>1, <2>2, <4>1
      <3>3. QED
        BY <2>2, <3>2 DEF AcceptsNamed
    <2> HIDE DEF Parts
    <2>3. QED
      BY <2>1, <2>2
  <1> HIDE DEF Parts
  <1>6. ASSUME AcceptsNamed(w, l)
        PROVE  \E a, p, q, r, s \in Nat : NamedAt(w, x, a, p, q, r, s, y)
    <2>1. PICK i, j, k, m, n \in Nat :
            /\ i + 1 < j /\ j <= k /\ k <= m /\ m <= n /\ n <= Len(l)
            /\ Parts(i, j, k, m, n)
      BY <1>5, <1>6
    <2>2. NamedAt(w, x, x + i, x + j, x + k, x + m, x + n, y)
      BY <1>4, <2>1
    <2>3. x + i \in Nat /\ x + j \in Nat /\ x + k \in Nat /\ x + m \in Nat /\ x + n \in Nat
      BY <1>1
    <2>4. QED
      BY <2>2, <2>3
  <1>7. ASSUME NEW a \in Nat, NEW p \in Nat, NEW q \in Nat, NEW r \in Nat, NEW s \in Nat,
               NamedAt(w, x, a, p, q, r, s, y)
        PROVE  AcceptsNamed(w, l)
    <2> DEFINE i == a - x
               j == p - x
               k == q - x
               m == r - x
               n == s - x
    <2>1. /\ i \in Nat /\ j \in Nat /\ k \in Nat /\ m \in Nat /\ n \in Nat
          /\ i + 1 < j /\ j <= k /\ k <= m /\ m <= n /\ n <= Len(l)
          /\ a = x + i /\ p = x + j /\ q = x + k /\ r = x + m /\ s = x + n
      <3>1. x <= a /\ a + 1 < p /\ p <= q /\ q <= r /\ r <= s /\ s <= y
        BY <1>7 DEF NamedAt
      <3>2. QED
        BY <1>1, <3>1
    <2> HIDE DEF i, j, k, m, n
    <2>2. Parts(i, j, k, m, n)
      BY <1>4, <1>7, <2>1
    <2>3. QED
      BY <1>5, <2>1, <2>2
  <1>8. QED
    BY <1>6, <1>7

LEMMA BehindBlanks ==
  ASSUME source \in Seq(Units), NEW p \in Nat \ {0}, NEW q \in Nat, p <= q,
         q <= Len(source) + 1, Blanks(p, q), UnitAt(q) \notin WordParts
  PROVE  UnitAt(p) \notin WordParts
  <1>1. CASE p = q
    BY <1>1
  <1>2. CASE p < q
    <2>1. p \in p..q - 1 /\ ~(p > Len(source))
      BY <1>2
    <2>2. UnitAt(p) = "blank"
      BY <2>1 DEF Blanks, UnitAt
    <2>3. QED
      BY <2>2 DEF WordParts, Letters, Keywords
  <1>3. QED
    BY <1>1, <1>2

LEMMA TokenIs ==
  ASSUME NEW kind, NEW p, NEW q
  PROVE  /\ Token(kind, p, q).kind = kind /\ Token(kind, p, q).from = p
         /\ Token(kind, p, q).to = q
  BY DEF Token

LEMMA KeywordOf ==
  /\ KeywordKinds["goal"] = "GoalKeyword"
  /\ KeywordKinds["capability"] = "CapabilityKeyword"
  /\ KeywordKinds["check"] = "CheckKeyword"
  /\ {"goal", "capability", "check"} \subseteq Keywords
  BY DEF KeywordKinds, Keywords

\* A text that is lexed to a keyword and a string, or to a keyword, an identifier
\* and a string.
GoalTokens(a, b, x, y) ==
  /\ LexOf({a, b}, x, y) /\ a.to <= b.from
  /\ a.kind = "GoalKeyword" /\ b.kind = "StringLiteral"
NamedTokens(w, a, b, c, x, y) ==
  /\ LexOf({a, b, c}, x, y) /\ a.to <= b.from /\ b.to <= c.from
  /\ a.kind = KeywordKinds[w] /\ b.kind = "Identifier" /\ c.kind = "StringLiteral"

\* A goal is a keyword and a string.
LEMMA GoalLexes ==
  ASSUME source \in Seq(Units), NEW l, NEW x, NEW y, LineAt(l, x, y)
  PROVE  AcceptsGoal(l) <=> \E a, b : GoalTokens(a, b, x, y)
  <1>1. x \in Nat \ {0} /\ y \in Nat /\ y <= Len(source) + 1 /\ Len(source) \in Nat
    BY DEF LineAt
  <1>2. ASSUME NEW i \in Nat, NEW p \in Nat, NEW q \in Nat, GoalAt(x, i, p, q, y)
        PROVE  \E a, b : GoalTokens(a, b, x, y)
    <2> DEFINE a == Token("GoalKeyword", i, i + 1)
               b == Token("StringLiteral", p, q)
    <2>1. /\ x <= i /\ i < p /\ p <= q /\ q <= y /\ source[i] = "goal"
          /\ Blanks(x, i) /\ Blanks(i + 1, p) /\ IsString(Seg(p, q)) /\ Blanks(q, y)
      BY <1>2 DEF GoalAt
    <2>2. /\ i \in Nat \ {0} /\ p \in Nat \ {0} /\ i + 1 \in Nat \ {0} /\ i + 1 <= p
          /\ p <= Len(source) + 1 /\ q <= Len(source) + 1 /\ i + 1 <= Len(source) + 1 /\ i <= i + 1
      BY <1>1, <2>1
    <2>3. p < q /\ Shaped(b) /\ UnitAt(p) \notin WordParts
      BY <2>1, <2>2, TextIsToken
    <2>4. UnitAt(i + 1) \notin WordParts
      BY <2>1, <2>2, <2>3, BehindBlanks
    <2>5. Shaped(a)
      BY <2>1, <2>2, <2>4, TextIsToken, KeywordOf
    <2>6. /\ a.from = i /\ a.to = i + 1 /\ a.kind = "GoalKeyword"
          /\ b.from = p /\ b.to = q /\ b.kind = "StringLiteral"
      BY TokenIs
    <2> HIDE DEF a, b
    <2>7. \A t \in {a, b} : Shaped(t) /\ x <= t.from /\ t.to <= y
      BY <1>1, <2>1, <2>2, <2>3, <2>5, <2>6
    <2>8. \A t, u \in {a, b} : t = u \/ t.to <= u.from \/ u.to <= t.from
      BY <2>2, <2>6
    <2>9. ASSUME NEW k \in x..y - 1  PROVE source[k] = "blank" \/ \E t \in {a, b} : Under(k, t)
      <3>1. k \in x..i - 1 \/ k = i \/ k \in i + 1..p - 1 \/ k \in p..q - 1 \/ k \in q..y - 1
        BY <1>1
      <3>2. k = i => Under(k, a)
        BY <2>6 DEF Under
      <3>3. k \in p..q - 1 => Under(k, b)
        BY <2>6 DEF Under
      <3>4. QED
        BY <2>1, <3>1, <3>2, <3>3 DEF Blanks
    <2>10. LexOf({a, b}, x, y)
      BY <2>7, <2>8, <2>9 DEF LexOf
    <2>11. GoalTokens(a, b, x, y)
      BY <2>2, <2>6, <2>10 DEF GoalTokens
    <2>12. QED
      BY <2>11
  <1>3. ASSUME NEW a, NEW b, GoalTokens(a, b, x, y)
        PROVE  GoalAt(x, a.from, b.from, b.to, y)
    <2> USE DEF GoalTokens
    <2>1. Shaped(a) /\ Shaped(b) /\ x <= a.from /\ b.to <= y
      BY <1>3 DEF LexOf
    <2>2. source[a.from] = "goal" /\ a.to = a.from + 1 /\ IsString(Seg(b.from, b.to))
      BY <1>3, <2>1, ShapedAs, KeywordOf
    <2>3. /\ a.from \in Nat /\ a.to \in Nat /\ b.from \in Nat /\ b.to \in Nat
          /\ a.from < a.to /\ b.from < b.to
      BY <2>1, ShapedIs
    <2>4. ASSUME NEW k \in x..y - 1, k < a.from \/ (a.to <= k /\ k < b.from) \/ b.to <= k
          PROVE  source[k] = "blank"
      <3>1. ~Under(k, a) /\ ~Under(k, b)
        BY <1>1, <1>3, <2>3, <2>4 DEF Under
      <3>2. QED
        BY <1>3, <3>1 DEF LexOf
    <2>5. a.from < b.from /\ b.from <= b.to /\ a.from <= y /\ b.from <= y
      BY <1>1, <1>3, <2>1, <2>3
    <2>6. Blanks(x, a.from) /\ Blanks(a.from + 1, b.from) /\ Blanks(b.to, y)
      <3>1. \A k \in x..a.from - 1 : k \in x..y - 1 /\ k < a.from
        BY <1>1, <2>3, <2>5
      <3>2. \A k \in a.from + 1..b.from - 1 : k \in x..y - 1 /\ a.to <= k /\ k < b.from
        BY <1>1, <2>1, <2>2, <2>3, <2>5
      <3>3. \A k \in b.to..y - 1 : k \in x..y - 1 /\ b.to <= k
        BY <1>1, <2>1, <2>3, <2>5
      <3>4. QED
        BY <2>4, <3>1, <3>2, <3>3 DEF Blanks
    <2>7. QED
      BY <2>1, <2>2, <2>5, <2>6 DEF GoalAt
  <1>4. AcceptsGoal(l) <=> \E i, p, q \in Nat : GoalAt(x, i, p, q, y)
    BY GoalPlaces
  <1>5. ASSUME NEW a, NEW b, GoalTokens(a, b, x, y)
        PROVE  a.from \in Nat /\ b.from \in Nat /\ b.to \in Nat
    BY <1>5, ShapedIs DEF LexOf, GoalTokens
  <1>6. QED
    BY <1>2, <1>3, <1>4, <1>5

\* A capability or a check is a keyword, an identifier and a string.
LEMMA NamedLexes ==
  ASSUME source \in Seq(Units), NEW l, NEW x, NEW y, LineAt(l, x, y), NEW w \in Keywords
  PROVE  AcceptsNamed(w, l) <=> \E a, b, c : NamedTokens(w, a, b, c, x, y)
  <1>1. x \in Nat \ {0} /\ y \in Nat /\ y <= Len(source) + 1 /\ Len(source) \in Nat
    BY DEF LineAt
  <1>2. ASSUME NEW i \in Nat, NEW p \in Nat, NEW q \in Nat, NEW r \in Nat, NEW s \in Nat,
               NamedAt(w, x, i, p, q, r, s, y)
        PROVE  \E a, b, c : NamedTokens(w, a, b, c, x, y)
    <2> DEFINE a == Token(KeywordKinds[w], i, i + 1)
               b == Token("Identifier", p, q)
               c == Token("StringLiteral", r, s)
    <2>1. /\ x <= i /\ i + 1 < p /\ p <= q /\ q <= r /\ r <= s /\ s <= y /\ source[i] = w
          /\ Blanks(x, i) /\ Blanks(i + 1, p) /\ IsName(Seg(p, q)) /\ Blanks(q, r)
          /\ IsString(Seg(r, s)) /\ Blanks(s, y)
      BY <1>2 DEF NamedAt
    <2>2. /\ i \in Nat \ {0} /\ p \in Nat \ {0} /\ q \in Nat \ {0} /\ r \in Nat \ {0}
          /\ i + 1 \in Nat \ {0} /\ i <= i + 1 /\ i + 1 <= Len(source)
          /\ i + 1 <= Len(source) + 1 /\ q <= Len(source) + 1 /\ r <= Len(source) + 1
          /\ s <= Len(source) + 1
      BY <1>1, <2>1
    <2>3. r < s /\ Shaped(c) /\ UnitAt(r) \notin WordParts
      BY <2>1, <2>2, TextIsToken
    <2>4. UnitAt(q) \notin WordParts
      BY <2>1, <2>2, <2>3, BehindBlanks
    <2>5. p < q /\ Shaped(b)
      BY <2>1, <2>2, <2>4, TextIsToken
    <2>6. UnitAt(i + 1) \notin WordParts
      <3>1. i + 1 \in i + 1..p - 1 /\ ~(i + 1 > Len(source))
        BY <1>1, <2>1, <2>2
      <3>2. UnitAt(i + 1) = "blank"
        BY <2>1, <3>1 DEF Blanks, UnitAt
      <3>3. QED
        BY <3>2 DEF WordParts, Letters, Keywords
    <2>7. Shaped(a)
      BY <2>1, <2>2, <2>6, TextIsToken
    <2>8. /\ a.from = i /\ a.to = i + 1 /\ a.kind = KeywordKinds[w]
          /\ b.from = p /\ b.to = q /\ b.kind = "Identifier"
          /\ c.from = r /\ c.to = s /\ c.kind = "StringLiteral"
      BY TokenIs
    <2> HIDE DEF a, b, c
    <2>9. a.to <= b.from /\ b.to <= c.from /\ a.to <= c.from
      BY <2>1, <2>8
    <2>10. \A t \in {a, b, c} : Shaped(t) /\ x <= t.from /\ t.to <= y
      <3>1. x <= i /\ i + 1 <= y /\ x <= p /\ q <= y /\ x <= r /\ s <= y
        BY <1>1, <2>1
      <3>2. QED
        BY <2>3, <2>5, <2>7, <2>8, <3>1
    <2>11. \A t, u \in {a, b, c} : t = u \/ t.to <= u.from \/ u.to <= t.from
      BY <2>9
    <2>12. ASSUME NEW k \in x..y - 1
           PROVE  source[k] = "blank" \/ \E t \in {a, b, c} : Under(k, t)
      <3>1. \/ k \in x..i - 1 \/ k = i \/ k \in i + 1..p - 1 \/ k \in p..q - 1
            \/ k \in q..r - 1 \/ k \in r..s - 1 \/ k \in s..y - 1
        BY <1>1
      <3>2. k = i => Under(k, a)
        BY <2>8 DEF Under
      <3>3. k \in p..q - 1 => Under(k, b)
        BY <2>8 DEF Under
      <3>4. k \in r..s - 1 => Under(k, c)
        BY <2>8 DEF Under
      <3>5. QED
        BY <2>1, <3>1, <3>2, <3>3, <3>4 DEF Blanks
    <2>13. LexOf({a, b, c}, x, y)
      BY <2>10, <2>11, <2>12 DEF LexOf
    <2>14. NamedTokens(w, a, b, c, x, y)
      BY <2>8, <2>9, <2>13 DEF NamedTokens
    <2>15. QED
      BY <2>14
  <1>3. ASSUME NEW a, NEW b, NEW c, NamedTokens(w, a, b, c, x, y)
        PROVE  /\ a.from \in Nat /\ b.from \in Nat /\ b.to \in Nat /\ c.from \in Nat /\ c.to \in Nat
               /\ NamedAt(w, x, a.from, b.from, b.to, c.from, c.to, y)
    <2> USE DEF NamedTokens
    <2>1. Shaped(a) /\ Shaped(b) /\ Shaped(c) /\ x <= a.from /\ c.to <= y
      BY <1>3 DEF LexOf
    <2>2. /\ source[a.from] = w /\ a.to = a.from + 1 /\ UnitAt(a.to) \notin WordParts
          /\ IsName(Seg(b.from, b.to)) /\ IsString(Seg(c.from, c.to))
      BY <1>3, <2>1, ShapedAs
    <2>3. /\ a.from \in Nat /\ a.to \in Nat /\ b.from \in Nat /\ b.to \in Nat
          /\ c.from \in Nat /\ c.to \in Nat
          /\ a.from < a.to /\ b.from < b.to /\ c.from < c.to
          /\ b.from \in 1..Len(source) /\ Seg(b.from, b.to)[1] = source[b.from]
      BY <2>1, ShapedIs
    <2>4. a.to # b.from
      <3>1. UnitAt(b.from) = source[b.from]
        BY <1>1, <2>3 DEF UnitAt
      <3>2. source[b.from] \in WordParts
        BY <2>2, <2>3 DEF IsName, WordParts
      <3>3. QED
        BY <2>2, <3>1, <3>2
    <2>5. ASSUME NEW k \in x..y - 1,
                 \/ k < a.from
                 \/ a.to <= k /\ k < b.from
                 \/ b.to <= k /\ k < c.from
                 \/ c.to <= k
          PROVE  source[k] = "blank"
      <3>1. /\ k < a.from \/ a.to <= k
            /\ k < b.from \/ b.to <= k
            /\ k < c.from \/ c.to <= k
        <4>1. a.to <= b.from /\ b.to <= c.from /\ k \in Nat
          BY <1>1, <1>3
        <4> HIDE DEF NamedTokens
        <4>2. QED
          BY <2>3, <2>5, <4>1
      <3>2. ~Under(k, a) /\ ~Under(k, b) /\ ~Under(k, c)
        BY SMTT(40), <1>1, <2>3, <3>1 DEF Under
      <3>3. QED
        BY <1>3, <3>2 DEF LexOf
    <2>6. /\ a.from + 1 < b.from /\ b.from <= b.to /\ b.to <= c.from /\ c.from <= c.to
          /\ a.from <= y /\ b.from <= y /\ b.to <= y /\ c.from <= y
      <3>1. a.from + 1 <= b.from /\ a.from + 1 # b.from
        BY <1>3, <2>2, <2>4
      <3>2. \A d, e \in Nat : d + 1 <= e /\ d + 1 # e => d + 1 < e
        OBVIOUS
      <3>3. a.from + 1 < b.from
        BY <2>3, <3>1, <3>2
      <3>4. b.from <= b.to /\ b.to <= c.from /\ c.from <= c.to
        BY <1>3, <2>3
      <3>5. c.from <= y
        BY <1>1, <2>1, <2>3
      <3>6. b.to <= y
        BY <1>1, <2>3, <3>4, <3>5
      <3>7. b.from <= y
        BY <1>1, <2>3, <3>4, <3>6
      <3>8. a.from <= y
        BY <1>1, <2>3, <3>3, <3>7
      <3>9. QED
        BY <3>3, <3>4, <3>5, <3>6, <3>7, <3>8
    <2>7. /\ Blanks(x, a.from) /\ Blanks(a.from + 1, b.from) /\ Blanks(b.to, c.from)
          /\ Blanks(c.to, y)
      <3>1. \A k \in x..a.from - 1 : k \in x..y - 1 /\ k < a.from
        BY <1>1, <2>3, <2>6
      <3>2. \A k \in a.from + 1..b.from - 1 : k \in x..y - 1 /\ a.to <= k /\ k < b.from
        BY <1>1, <2>1, <2>2, <2>3, <2>6
      <3>3. \A k \in b.to..c.from - 1 : k \in x..y - 1 /\ b.to <= k /\ k < c.from
        BY SMTT(40), <1>1, <2>1, <2>3, <2>6
      <3>4. \A k \in c.to..y - 1 : k \in x..y - 1 /\ c.to <= k
        BY <1>1, <2>1, <2>3, <2>6
      <3>5. QED
        BY <2>5, <3>1, <3>2, <3>3, <3>4 DEF Blanks
    <2>8. QED
      BY <2>1, <2>2, <2>3, <2>6, <2>7 DEF NamedAt
  <1>4. AcceptsNamed(w, l) <=> \E i, p, q, r, s \in Nat : NamedAt(w, x, i, p, q, r, s, y)
    BY NamedPlaces
  <1>5. QED
    BY <1>2, <1>3, <1>4
-----------------------------------------------------------------------------
(* The lexer complains of the lines that are wrong, and of no others.        *)

\* A line that is something can be lexed.
LEMMA LineLexes ==
  ASSUME source \in Seq(Units), NEW l, NEW x, NEW y, LineAt(l, x, y), AcceptedKind(l) # "wrong"
  PROVE  \E T : LexOf(T, x, y)
  <1>1. IsBlank(l) \/ AcceptsGoal(l) \/ AcceptsNamed("capability", l) \/ AcceptsNamed("check", l)
    BY DEF AcceptedKind
  <1>2. CASE IsBlank(l)
    BY <1>2, BlankLexes
  <1>3. CASE AcceptsGoal(l)
    BY <1>3, GoalLexes DEF GoalTokens
  <1>4. ASSUME NEW w \in Keywords, AcceptsNamed(w, l)  PROVE \E T : LexOf(T, x, y)
    BY <1>4, NamedLexes DEF NamedTokens
  <1>5. QED
    BY <1>1, <1>2, <1>3, <1>4, KeywordOf

\* What there is of a document that the lexer has not complained of.
Clean ==
  /\ \A t \in DOMAIN tokens : Lexeme(tokens[t])
  /\ Accounted(tokens, {}, LexedTo)
  /\ phase = "string" => StringSoFar(Seg(opened, at))

\* The lexer has complained of some line that is wrong, or of nothing.
LangInv ==
  /\ \E first : Layout(first)
  /\ diagnostics = {} \/ section # "goal" => Clean
  /\ diagnostics # {} /\ section = "goal" =>
       \E k \in DOMAIN lines : AcceptedKind(lines[k]) = "wrong"

\* What starts with a unit that no token can start with is wrong.
LEMMA WrongLine ==
  ASSUME LexInv, phase \in {"lex", "string"}, Clean, NEW first, Layout(first),
         NEW p, p = LexedTo, p \in DOMAIN source, source[p] # "blank", BreakAt(p) = 0,
         \A t : Shaped(t) => t.from # p
  PROVE  \E k \in DOMAIN lines : AcceptedKind(lines[k]) = "wrong"
  <1>1. source \in Seq(Units) /\ InOrder(tokens, p) /\ p \in Nat
    BY DEF LexInv
  <1>2. ~(0 > 0)
    OBVIOUS
  <1>3. PICK k \in DOMAIN lines : first[k] <= p /\ p < Past(first, k)
    BY <1>2 DEF Layout
  <1> DEFINE l == lines[k]
             x == first[k]
             y == Past(first, k)
  <1>4. LineAt(l, x, y) /\ x \in Nat /\ y \in Nat /\ p \in x..y /\ p \in x..y - 1 /\ p <= y
    <2>1. LineAt(l, x, y)
      BY DEF Layout
    <2>2. x \in Nat /\ y \in Nat
      BY <2>1 DEF LineAt
    <2>3. QED
      BY <1>1, <1>3, <2>1, <2>2
  <1>5. LexOf(TokensIn(x, p), x, p)
    <2>1. Ordered
      BY <1>1 DEF InOrder, Ordered
    <2>2. \A t \in DOMAIN tokens : tokens[t].to <= p
      BY <1>1 DEF InOrder
    <2>3. \A i \in x..p - 1 : source[i] = "blank" \/ \E t \in DOMAIN tokens : Under(i, tokens[t])
      <3>1. \A i \in x..p - 1 : i \in DOMAIN source /\ i < p
        BY SMTT(40), <1>1, <1>4 DEF LineAt
      <3>2. QED
        BY <3>1 DEF Clean, Accounted
    <2> HIDE DEF l, x, y
    <2>4. \A t \in DOMAIN tokens : Lexeme(tokens[t])
      BY DEF Clean
    <2>5. QED
      BY <1>1, <1>4, <2>1, <2>2, <2>3, <2>4, LineIsLexed
  <1> HIDE DEF l, x, y
  <1>6. ASSUME AcceptedKind(l) # "wrong"  PROVE FALSE
    <2>1. PICK T : LexOf(T, x, y)
      BY <1>1, <1>4, <1>6, LineLexes
    <2>2. PICK t \in T : Under(p, t)
      BY <1>4, <2>1 DEF LexOf
    <2>3. Shaped(t)
      BY <2>1 DEF LexOf
    <2>4. t.from <= p /\ p < t.to /\ t.from # p /\ t.from \in Nat /\ t.to \in Nat
      <3>1. t.from <= p /\ p < t.to
        BY <2>2 DEF Under
      <3>2. t.from # p
        BY <2>3
      <3>3. t.from \in Nat /\ t.to \in Nat
        BY <1>1, <2>3, ShapedIs
      <3>4. QED
        BY <3>1, <3>2, <3>3
    <2>5. t.from < p /\ ~(t.to <= p)
      BY <1>1, <2>4
    <2>6. t \in TokensIn(x, p)
      BY <1>1, <1>4, <1>5, <2>1, <2>5, LexedOneWay
    <2>7. t.to <= p
      BY <1>5, <2>6 DEF LexOf
    <2>8. QED
      BY <2>5, <2>7
  <1>7. QED
    BY <1>6 DEF l

LEMMA SegMore ==
  ASSUME source \in Seq(Units), NEW o \in Nat \ {0}, NEW a \in Nat, NEW b \in Nat, o <= a, a <= b,
         b <= Len(source) + 1
  PROVE  /\ Seg(o, a) \in Seq(Units) /\ Len(Seg(o, a)) = a - o
         /\ Seg(o, b) \in Seq(Units) /\ Len(Seg(o, b)) = b - o
         /\ Prefix(Seg(o, a), Seg(o, b))
         /\ \A i \in Nat : o <= i /\ i < b => Seg(o, b)[i - o + 1] = source[i]
  <1>1. a <= Len(source) + 1 /\ o <= b
    OBVIOUS
  <1>2. /\ Seg(o, a) \in Seq(Units) /\ Len(Seg(o, a)) = a - o
        /\ \A i \in 1..a - o : Seg(o, a)[i] = source[o + i - 1]
    BY <1>1, SegIs
  <1>3. /\ Seg(o, b) \in Seq(Units) /\ Len(Seg(o, b)) = b - o
        /\ \A i \in 1..b - o : Seg(o, b)[i] = source[o + i - 1]
    BY <1>1, SegIs
  <1>4. a - o <= b - o /\ \A i \in 1..a - o : i \in 1..b - o
    OBVIOUS
  <1>5. Prefix(Seg(o, a), Seg(o, b))
    BY <1>2, <1>3, <1>4 DEF Prefix
  <1>6. \A i \in Nat : o <= i /\ i < b => i - o + 1 \in 1..b - o /\ o + (i - o + 1) - 1 = i
    OBVIOUS
  <1>7. QED
    BY <1>2, <1>3, <1>5, <1>6

\* A piece of the source, with one more unit, or two.
LEMMA SegOneMore ==
  ASSUME source \in Seq(Units), NEW o \in Nat \ {0}, NEW a \in Nat, o <= a,
         NEW b \in Nat, b = a + 1, b <= Len(source) + 1
  PROVE  /\ Seg(o, b) \in Seq(Units) /\ Prefix(Seg(o, a), Seg(o, b))
         /\ Len(Seg(o, b)) = Len(Seg(o, a)) + 1
         /\ Seg(o, b)[Len(Seg(o, a)) + 1] = source[a]
  <1> DEFINE s == Seg(o, a)
             t == Seg(o, b)
  <1>1. /\ a <= b /\ a < b
    OBVIOUS
  <1>2. /\ Len(s) = a - o /\ t \in Seq(Units) /\ Len(t) = b - o /\ Prefix(s, t)
        /\ \A i \in Nat : o <= i /\ i < b => t[i - o + 1] = source[i]
    BY <1>1, SegMore
  <1> HIDE DEF s, t
  <1>3. a - o + 1 = Len(s) + 1 /\ b - o = Len(s) + 1
    BY <1>2
  <1>4. t[a - o + 1] = source[a]
    BY <1>1, <1>2
  <1>5. QED
    BY <1>2, <1>3, <1>4 DEF s, t

LEMMA SegTwoMore ==
  ASSUME source \in Seq(Units), NEW o \in Nat \ {0}, NEW a \in Nat, o <= a,
         NEW b \in Nat, b = a + 2, b <= Len(source) + 1
  PROVE  /\ Seg(o, b) \in Seq(Units) /\ Prefix(Seg(o, a), Seg(o, b))
         /\ Len(Seg(o, b)) = Len(Seg(o, a)) + 2
         /\ Seg(o, b)[Len(Seg(o, a)) + 1] = source[a]
         /\ Seg(o, b)[Len(Seg(o, a)) + 2] = source[a + 1]
  <1> DEFINE s == Seg(o, a)
             t == Seg(o, b)
  <1>1. /\ a <= b /\ a < b /\ a + 1 \in Nat /\ o <= a + 1 /\ a + 1 < b
    OBVIOUS
  <1>2. /\ Len(s) = a - o /\ t \in Seq(Units) /\ Len(t) = b - o /\ Prefix(s, t)
        /\ \A i \in Nat : o <= i /\ i < b => t[i - o + 1] = source[i]
    BY <1>1, SegMore
  <1> HIDE DEF s, t
  <1>3. a - o + 1 = Len(s) + 1 /\ b - o = Len(s) + 2 /\ a + 1 - o + 1 = Len(s) + 2
    BY <1>2
  <1>4. t[a - o + 1] = source[a]
    BY <1>1, <1>2
  <1>5. t[a + 1 - o + 1] = source[a + 1]
    BY <1>1, <1>2
  <1>6. QED
    BY <1>2, <1>3, <1>4, <1>5 DEF s, t

\* What is read off the source stays, for the source does.
LEMMA TextStays ==
  ASSUME UNCHANGED source
  PROVE  /\ \A x, y : Seg(x, y)' = Seg(x, y)
         /\ \A t : Shaped(t)' <=> Shaped(t)
         /\ \A t : Lexeme(t)' <=> Lexeme(t)
         /\ \A l, x, y : LineAt(l, x, y)' <=> LineAt(l, x, y)
  <1>1. \A x, y : Seg(x, y)' = Seg(x, y)
    BY DEF Seg
  <1>2. \A i : UnitAt(i)' = UnitAt(i)
    BY DEF UnitAt
  <1>3. \A i : BreakAt(i)' = BreakAt(i)
    BY <1>2 DEF BreakAt
  <1>4. \A t : Shaped(t)' <=> Shaped(t)
    BY <1>1, <1>2 DEF Shaped
  <1>5. \A t : Lexeme(t)' <=> Lexeme(t)
    BY <1>3, <1>4 DEF Lexeme, BreakToken, EndToken
  <1>6. \A l, x, y : LineAt(l, x, y)' <=> LineAt(l, x, y)
    BY <1>3 DEF LineAt
  <1>7. QED
    BY <1>1, <1>4, <1>5, <1>6

\* The lexer adds a token that the text gives, and goes to its end.
LEMMA TokenKeepsClean ==
  ASSUME LexInv, phase \in {"lex", "string"}, Clean, NEW tok, Lexeme(tok), tok \in Tokens,
         tok.from = LexedTo, tok.to = at', at' \in Nat, phase' # "string",
         tokens' = Append(tokens, tok), UNCHANGED source
  PROVE  Clean'
  <1>1. LexedTo \in Nat /\ 1 <= LexedTo /\ LexedTo' = at'
    BY DEF LexInv, LexedTo
  <1>2. tokens \in Seq(Tokens) /\ source \in Seq(Units)
    BY DEF LexInv, InOrder
  <1>3. /\ DOMAIN tokens \subseteq DOMAIN tokens' /\ \A t \in DOMAIN tokens : tokens'[t] = tokens[t]
        /\ \E t \in DOMAIN tokens' : tokens'[t] = tok
        /\ \A t \in DOMAIN tokens' : t \in DOMAIN tokens \/ tokens'[t] = tok
    <2> DEFINE l == Len(tokens)
    <2>1. /\ l \in Nat /\ DOMAIN tokens = 1..l /\ DOMAIN tokens' = 1..l + 1
          /\ tokens'[l + 1] = tok /\ \A t \in 1..l : tokens'[t] = tokens[t]
      BY <1>2
    <2> HIDE DEF l
    <2>2. l + 1 \in 1..l + 1 /\ \A t \in 1..l + 1 : t \in 1..l \/ t = l + 1
      BY <2>1
    <2>3. QED
      BY <2>1, <2>2
  <1>4. \A t \in DOMAIN tokens' : Lexeme(tokens'[t])
    BY <1>3 DEF Clean
  <1>5. Accounted(tokens', {}, at')
    <2> DEFINE none == {}
    <2>1. \A i \in DOMAIN source : LexedTo <= i /\ i < at' =>
            \/ \E t \in DOMAIN tokens' : Under(i, tokens'[t])
            \/ source[i] = "blank"
            \/ \E d \in none : Under(i, d)
      BY <1>3 DEF Under
    <2>2. Accounted(tokens, none, LexedTo) /\ none \subseteq none
      BY DEF Clean
    <2> HIDE DEF none
    <2>3. Accounted(tokens', none, at')
      <3> HIDE DEF LexedTo
      <3>1. QED
        BY ZenonT(60), <1>1, <1>2, <1>3, <2>1, <2>2, AccountedMore
    <2>4. QED
      BY <2>3 DEF none
  <1>6. Accounted(tokens, {}, LexedTo)'
    BY <1>1, <1>5 DEF Accounted
  <1>7. QED
    BY <1>4, <1>6, TextStays DEF Clean

\* It goes over blanks.
LEMMA GapKeepsClean ==
  ASSUME LexInv, phase = "lex", Clean, at' \in Nat, phase' = "lex",
         \A i \in DOMAIN source : at <= i /\ i < at' => source[i] = "blank",
         UNCHANGED <<source, tokens>>
  PROVE  Clean'
  <1>1. LexedTo = at /\ at \in Nat /\ LexedTo' = at'
    BY DEF LexInv, LexedTo
  <1>2. source \in Seq(Units)
    BY DEF LexInv
  <1>3. Accounted(tokens, {}, at')
    BY <1>1, <1>2, AccountedMore DEF Clean
  <1>4. Accounted(tokens, {}, LexedTo)'
    BY <1>1, <1>3 DEF Accounted
  <1>5. QED
    BY <1>4, TextStays DEF Clean

\* It goes on within a string.
LEMMA StringKeepsClean ==
  ASSUME LexInv, Clean, phase' = "string", opened' = LexedTo,
         StringSoFar(Seg(opened', at')), UNCHANGED <<source, tokens>>
  PROVE  Clean'
  <1>1. LexedTo' = LexedTo
    BY DEF LexedTo
  <1>2. Accounted(tokens, {}, LexedTo)'
    BY <1>1 DEF Clean, Accounted
  <1>3. \A t \in DOMAIN tokens' : Lexeme(tokens'[t])
    BY DEF Clean
  <1>4. StringSoFar(Seg(opened, at))'
    BY DEF StringSoFar, Seg
  <1>5. QED
    BY <1>2, <1>3, <1>4, TextStays DEF Clean

LEMMA LexKeepsClean ==
  ASSUME LexInv, Clean, diagnostics = {}, diagnostics' = {}, Lex
  PROVE  Clean'
  <1>1. /\ source \in Seq(Units) /\ Len(source) \in Nat /\ DOMAIN source = 1..Len(source)
        /\ at \in 1..Len(source) + 1 /\ at \in Nat \ {0} /\ at + 1 \in Nat \ {0}
        /\ phase = "string" =>
             opened \in 1..at - 1 /\ opened \in Nat \ {0} /\ opened < at /\ LexedTo = opened
        /\ phase = "lex" => LexedTo = at
    BY DEF LexInv, LexedTo
  <1>2. /\ Unit \in Units => at \in 1..Len(source) /\ source[at] = Unit
        /\ Unit \in Units \cup {Null} /\ (Ended <=> Unit = Null)
        /\ UnitAt(at) = Unit
    BY <1>1, UnitIsThere
  <1>3. \A i \in Nat \ {0} : UnitAt(i) \in Units => i \in 1..Len(source) /\ source[i] = UnitAt(i)
    BY <1>1, UnitIsThere
  <1>4. \A code, from, to : ~Report(code, from, to)
    BY DEF Report
  <1>5. UNCHANGED source
    BY DEF Lex, SkipBlank, LexNewline, OpenString, CloseString, BreakString, Escape,
       StringChar, LexWord, UnexpectedCharacter, EndOfFile, input
  <1>6. phase = "string" => StringSoFar(Seg(opened, at))
    BY DEF Clean
  <1>7. CASE SkipBlank
    <2>1. Unit = "blank" /\ Unit \in Units /\ phase = "lex" /\ phase' = "lex" /\ at' = at + 1
          /\ UNCHANGED tokens
      BY <1>7 DEF SkipBlank, Units
    <2>2. \A i \in DOMAIN source : at <= i /\ i < at' => source[i] = "blank"
      BY <1>1, <1>2, <2>1
    <2>3. QED
      BY <1>1, <1>5, <2>1, <2>2, GapKeepsClean
  <1>8. CASE LexNewline
    <2> DEFINE tok == Token("Newline", at, at')
    <2>1. /\ phase = "lex" /\ phase' = "lex" /\ BreakAt(at) > 0 /\ at' = at + BreakAt(at)
          /\ tokens' = Append(tokens, tok)
      BY <1>8 DEF LexNewline
    <2>2. at' \in Nat
      BY <1>1, <2>1 DEF BreakAt
    <2>3. tok.kind = "Newline" /\ tok.from = at /\ tok.to = at' /\ tok \in Tokens
      BY <1>1, <2>2 DEF Token, Tokens, TokenKinds
    <2> HIDE DEF tok
    <2>4. Lexeme(tok)
      BY <1>1, <2>1, <2>3 DEF Lexeme, BreakToken
    <2>5. QED
      BY <1>1, <1>5, <2>1, <2>2, <2>3, <2>4, TokenKeepsClean
  <1>9. CASE OpenString
    <2>1. /\ phase = "lex" /\ phase' = "string" /\ opened' = at /\ at' = at + 1
          /\ UNCHANGED tokens /\ Unit = "quote"
      BY <1>9 DEF OpenString
    <2>2. at \in 1..Len(source) /\ source[at] = "quote"
      BY <1>2, <2>1 DEF Units
    <2>3. /\ at' \in Nat /\ at <= at' /\ at' <= Len(source) + 1 /\ at' - at = 1
          /\ 1 \in 1..at' - at /\ at + 1 - 1 = at
      BY <1>1, <2>1, <2>2
    <2>4. Seg(at, at') \in Seq(Units) /\ Len(Seg(at, at')) = 1 /\ Seg(at, at')[1] = "quote"
      <3>1. /\ Seg(at, at') \in Seq(Units) /\ Len(Seg(at, at')) = at' - at
            /\ \A i \in 1..at' - at : Seg(at, at')[i] = source[at + i - 1]
        BY <1>1, <2>3, SegIs
      <3>2. QED
        BY <2>2, <2>3, <3>1
    <2>5. StringSoFar(Seg(opened', at'))
      BY <2>1, <2>4, StringStarts
    <2>6. QED
      BY <1>1, <1>5, <2>1, <2>5, StringKeepsClean
  <1>10. CASE CloseString
    <2> DEFINE tok == Token("StringLiteral", opened, at')
    <2>1. /\ phase = "string" /\ phase' = "lex" /\ at' = at + 1 /\ Unit = "quote"
          /\ tokens' = Append(tokens, tok)
      BY <1>10 DEF CloseString
    <2>2. at \in 1..Len(source) /\ source[at] = "quote"
      BY <1>2, <2>1 DEF Units
    <2> DEFINE s == Seg(opened, at)
               t == Seg(opened, at')
    <2>3. opened <= at /\ at' \in Nat /\ at' <= Len(source) + 1 /\ opened <= at'
      BY <1>1, <2>1, <2>2
    <2>4. /\ t \in Seq(Units) /\ Prefix(s, t) /\ Len(t) = Len(s) + 1 /\ t[Len(t)] = "quote"
      <3>1. /\ source \in Seq(Units) /\ opened \in Nat \ {0} /\ at \in Nat /\ at' \in Nat
            /\ at' = at + 1 /\ opened <= at /\ at' <= Len(source) + 1
        BY <1>1, <2>1, <2>3
      <3>2. /\ Seg(opened, at') \in Seq(Units) /\ Prefix(Seg(opened, at), Seg(opened, at'))
            /\ Len(Seg(opened, at')) = Len(Seg(opened, at)) + 1
            /\ Seg(opened, at')[Len(Seg(opened, at)) + 1] = source[at]
        BY ONLY <3>1, SegOneMore
      <3>3. QED
        BY <2>2, <3>2
    <2>5. IsString(t)
      BY <1>6, <2>1, <2>4, StringCloses
    <2>6. Shaped(tok)
      BY <1>1, <2>1, <2>3, <2>5, TextIsToken
    <2>7. tok.from = opened /\ tok.to = at'
      BY TokenIs
    <2> HIDE DEF tok
    <2>8. Lexeme(tok) /\ tok \in Tokens
      BY <2>6 DEF Lexeme, Shaped
    <2>9. QED
      BY <1>1, <1>5, <2>1, <2>7, <2>8, TokenKeepsClean
  <1>11. CASE BreakString
    BY <1>4, <1>11 DEF BreakString
  <1>12. CASE Escape
    <2>1. /\ phase = "string" /\ phase' = "string" /\ opened' = opened /\ at' = at + 2
          /\ UNCHANGED tokens /\ Unit = "backslash" /\ UnitAt(at + 1) \in Escapable
      BY <1>4, <1>12 DEF Escape
    <2>2. /\ at \in 1..Len(source) /\ source[at] = "backslash"
          /\ at + 1 \in 1..Len(source) /\ source[at + 1] \in Escapable
      <3>1. Unit \in Units /\ UnitAt(at + 1) \in Units
        BY <2>1 DEF Units, Escapable, WordParts, Letters
      <3>2. QED
        BY <1>1, <1>2, <1>3, <2>1, <3>1
    <2> DEFINE s == Seg(opened, at)
               t == Seg(opened, at')
    <2>3. opened <= at /\ at' <= Len(source) + 1
      BY <1>1, <2>1, <2>2
    <2>4. /\ t \in Seq(Units) /\ Prefix(s, t) /\ Len(t) = Len(s) + 2
          /\ t[Len(s) + 1] = "backslash" /\ t[Len(s) + 2] \in Escapable
      <3>1. /\ source \in Seq(Units) /\ opened \in Nat \ {0} /\ at \in Nat /\ at' \in Nat
            /\ at' = at + 2 /\ opened <= at /\ at' <= Len(source) + 1
        BY <1>1, <2>1, <2>3
      <3>2. /\ Seg(opened, at') \in Seq(Units) /\ Prefix(Seg(opened, at), Seg(opened, at'))
            /\ Len(Seg(opened, at')) = Len(Seg(opened, at)) + 2
            /\ Seg(opened, at')[Len(Seg(opened, at)) + 1] = source[at]
            /\ Seg(opened, at')[Len(Seg(opened, at)) + 2] = source[at + 1]
        BY ONLY <3>1, SegTwoMore
      <3>3. QED
        BY <2>2, <3>2
    <2>5. StringSoFar(t)
      BY <1>6, <2>1, <2>4, StringEscapes
    <2>6. QED
      BY <1>1, <1>5, <2>1, <2>5, StringKeepsClean
  <1>13. CASE StringChar
    <2>1. /\ phase = "string" /\ phase' = "string" /\ opened' = opened /\ at' = at + 1
          /\ UNCHANGED tokens /\ Unit \notin {"quote", "backslash"} /\ ~BrokenOff(at)
      BY <1>13 DEF StringChar
    <2>2. at \in 1..Len(source) /\ source[at] \notin LineBreaks \cup {"quote", "backslash"}
      BY <1>2, <2>1 DEF BrokenOff
    <2> DEFINE s == Seg(opened, at)
               t == Seg(opened, at')
    <2>3. opened <= at /\ at' <= Len(source) + 1
      BY <1>1, <2>1, <2>2
    <2>4. /\ t \in Seq(Units) /\ Prefix(s, t) /\ Len(t) = Len(s) + 1
          /\ t[Len(t)] \notin LineBreaks \cup {"quote", "backslash"}
      <3>1. /\ source \in Seq(Units) /\ opened \in Nat \ {0} /\ at \in Nat /\ at' \in Nat
            /\ at' = at + 1 /\ opened <= at /\ at' <= Len(source) + 1
        BY <1>1, <2>1, <2>3
      <3>2. /\ Seg(opened, at') \in Seq(Units) /\ Prefix(Seg(opened, at), Seg(opened, at'))
            /\ Len(Seg(opened, at')) = Len(Seg(opened, at)) + 1
            /\ Seg(opened, at')[Len(Seg(opened, at)) + 1] = source[at]
        BY ONLY <3>1, SegOneMore
      <3>3. QED
        BY <2>2, <3>2
    <2>5. StringSoFar(t)
      BY <1>6, <2>1, <2>4, StringGoesOn
    <2>6. QED
      BY <1>1, <1>5, <2>1, <2>5, StringKeepsClean
  <1>14. CASE LexWord
    <2> DEFINE kind == IF Unit \in Keywords /\ at' = at + 1 THEN KeywordKinds[Unit]
                       ELSE "Identifier"
               tok == Token(kind, at, at')
    <2>1. /\ phase = "lex" /\ phase' = "lex" /\ at' = WordEnd /\ Unit \in Letters
          /\ tokens' = Append(tokens, tok)
      BY <1>14 DEF LexWord
    <2>2. at \in 1..Len(source) /\ source[at] = Unit
      BY <1>2, <2>1 DEF Units, WordParts
    <2>3. /\ at' \in at + 1..Len(source) + 1 /\ UnitAt(at') \notin WordParts
          /\ \A k \in at..at' - 1 : UnitAt(k) \in WordParts
      BY <1>1, <2>1, <2>2, WordEnds
    <2>4. at' \in Nat /\ at < at' /\ at <= at' /\ at' <= Len(source) + 1
      BY <1>1, <2>3
    <2>5. Shaped(tok)
      <3>1. CASE Unit \in Keywords /\ at' = at + 1
        BY <1>1, <2>2, <2>3, <2>4, <3>1, TextIsToken
      <3>2. CASE ~(Unit \in Keywords /\ at' = at + 1)
        <4> DEFINE s == Seg(at, at')
        <4>1. /\ s \in Seq(Units) /\ Len(s) = at' - at
              /\ \A k \in 1..at' - at : s[k] = source[at + k - 1]
          BY <1>1, <2>4, SegIs
        <4>2. \A k \in 1..at' - at : source[at + k - 1] \in WordParts
          <5> SUFFICES ASSUME NEW k \in 1..at' - at  PROVE source[at + k - 1] \in WordParts
            OBVIOUS
          <5>1. at + k - 1 \in at..at' - 1 /\ at + k - 1 \in Nat \ {0}
            <6>1. \A c \in Nat \ {0}, d \in Nat : \A e \in 1..d - c :
                    c + e - 1 \in c..d - 1 /\ c + e - 1 \in Nat \ {0}
              OBVIOUS
            <6>2. QED
              BY <1>1, <2>4, <6>1
          <5>2. UnitAt(at + k - 1) \in WordParts
            BY <2>3, <5>1
          <5>3. UnitAt(at + k - 1) \in Units
            BY <5>2 DEF Units
          <5>4. QED
            BY <1>3, <5>1, <5>2, <5>3
        <4>3. at' - at \in Nat \ {0} /\ 1 \in 1..at' - at /\ at + 1 - 1 = at
              /\ (at' - at = 1 => at' = at + 1)
          <5>1. \A c, d \in Nat : c < d =>
                  /\ d - c \in Nat \ {0} /\ 1 \in 1..d - c /\ c + 1 - 1 = c
                  /\ d - c = 1 => d = c + 1
            OBVIOUS
          <5>2. QED
            BY <1>1, <2>4, <5>1
        <4>4. s[1] = Unit
          BY <2>2, <4>1, <4>3
        <4>5. Len(s) = 1 => at' = at + 1
          BY <4>1, <4>3
        <4> HIDE DEF s
        <4>6. DOMAIN s = 1..at' - at /\ s # <<>>
          BY <4>1, <4>3
        <4>7. IsName(s)
          BY <2>1, <3>2, <4>1, <4>2, <4>4, <4>5, <4>6 DEF IsName
        <4>8. Shaped(Token("Identifier", at, at'))
          BY <1>1, <2>3, <2>4, <4>7, TextIsToken DEF s
        <4>9. kind = "Identifier"
          BY <3>2
        <4>10. QED
          BY <4>8, <4>9
      <3>3. QED
        BY <3>1, <3>2
    <2>6. tok.from = at /\ tok.to = at'
      BY TokenIs
    <2> HIDE DEF tok
    <2>7. Lexeme(tok) /\ tok \in Tokens
      BY <2>5 DEF Lexeme, Shaped
    <2>8. QED
      BY <1>1, <1>5, <2>1, <2>4, <2>6, <2>7, TokenKeepsClean
  <1>15. CASE UnexpectedCharacter
    BY <1>4, <1>15 DEF UnexpectedCharacter
  <1>16. CASE EndOfFile
    <2> DEFINE tok == Token("EOF", at, at)
    <2>1. phase = "lex" /\ phase' # "string" /\ at' = at /\ tokens' = Append(tokens, tok)
      BY <1>16 DEF EndOfFile
    <2>2. tok.kind = "EOF" /\ tok.from = at /\ tok.to = at /\ tok \in Tokens
      BY <1>1 DEF Token, Tokens, TokenKinds
    <2> HIDE DEF tok
    <2>3. Lexeme(tok)
      BY <2>2 DEF Lexeme, EndToken
    <2>4. QED
      BY <1>1, <1>5, <2>1, <2>2, <2>3, TokenKeepsClean
  <1>17. QED
    BY <1>7, <1>8, <1>9, <1>10, <1>11, <1>12, <1>13, <1>14, <1>15, <1>16 DEF Lex

\* No string starts where the lexer has found that one goes wrong.
LEMMA StringStops ==
  ASSUME LexInv, phase = "string", StringSoFar(Seg(opened, at)), NEW t, Shaped(t),
         t.from = opened
  PROVE  /\ ~BrokenOff(at)
         /\ UnitAt(at) = "backslash" => UnitAt(at + 1) \in Escapable
  <1> DEFINE s == Seg(opened, at)
             r == Seg(t.from, t.to)
             n == at - opened
  <1>1. /\ source \in Seq(Units) /\ Len(source) \in Nat /\ DOMAIN source = 1..Len(source)
        /\ at \in Nat \ {0} /\ at <= Len(source) + 1 /\ opened \in Nat \ {0} /\ opened < at
        /\ opened <= at /\ n \in Nat \ {0}
    BY DEF LexInv
  <1>2. /\ s \in Seq(Units) /\ Len(s) = n /\ \A i \in 1..n : s[i] = source[opened + i - 1]
    BY <1>1, SegIs
  <1>3. /\ t.to \in Nat /\ t.to <= Len(source) + 1 /\ r \in Seq(Units) /\ Len(r) = t.to - opened
        /\ \A i \in 1..t.to - opened : r[i] = source[opened + i - 1]
        /\ r[1] = source[opened]
        /\ t.kind = "StringLiteral" <=> source[opened] = "quote"
    BY <1>1, ShapedIs
  <1>4. IsString(r)
    <2>1. s[1] = "quote" /\ 1 \in 1..n /\ opened + 1 - 1 = opened
      BY <1>1 DEF StringSoFar
    <2>2. t.kind = "StringLiteral"
      BY <1>2, <1>3, <2>1
    <2>3. QED
      BY <1>1, <2>2, ShapedAs
  <1>5. StringSoFar(s)
    OBVIOUS
  <1> HIDE DEF s, r, n
  <1>6. /\ n < Len(r) /\ r[n + 1] \notin LineBreaks
        /\ r[n + 1] = "backslash" => n + 2 < Len(r) /\ r[n + 2] \in Escapable
    <2>1. \A i \in 1..Len(s) : i <= Len(r) => s[i] = r[i]
      <3> SUFFICES ASSUME NEW i \in 1..Len(s), i <= Len(r)  PROVE s[i] = r[i]
        OBVIOUS
      <3>1. s[i] = source[opened + i - 1]
        BY <1>2
      <3>2. i \in 1..t.to - opened
        BY <1>1, <1>2, <1>3
      <3>3. r[i] = source[opened + i - 1]
        BY <1>3, <3>2
      <3>4. QED
        BY <3>1, <3>3
    <2>2. n = Len(s) /\ r \in Seq(Units)
      BY <1>2, <1>3
    <2>3. QED
      BY ONLY <1>4, <1>5, <2>1, <2>2, StringNotBroken
  <1>7. /\ at \in DOMAIN source /\ source[at] = r[n + 1] /\ UnitAt(at) = source[at]
    <2>1. n + 1 \in 1..t.to - opened /\ opened + (n + 1) - 1 = at /\ at <= Len(source)
      BY <1>1, <1>3, <1>6 DEF n
    <2>2. r[n + 1] = source[opened + (n + 1) - 1]
      BY <1>3, <2>1
    <2>3. QED
      BY <1>1, <2>1, <2>2 DEF UnitAt
  <1>8. ASSUME source[at] = "backslash"
        PROVE  UnitAt(at + 1) \in Escapable
    <2>1. n + 2 < Len(r) /\ r[n + 2] \in Escapable
      BY <1>6, <1>7, <1>8
    <2>2. /\ n + 2 \in 1..t.to - opened /\ opened + (n + 2) - 1 = at + 1
          /\ at + 1 <= Len(source) /\ ~(at + 1 > Len(source))
      BY <1>1, <1>3, <2>1 DEF n
    <2>3. r[n + 2] = source[opened + (n + 2) - 1]
      BY <1>3, <2>2
    <2>4. QED
      BY <2>1, <2>2, <2>3 DEF UnitAt
  <1>9. /\ UnitAt(at) \notin LineBreaks \cup {Null}
        /\ \A u \in Escapable : u \notin LineBreaks \cup {Null}
    <2>1. source[at] \in Units
      BY <1>1, <1>7
    <2>2. QED
      BY <1>6, <1>7, <2>1, NullAssumption DEF Escapable, LineBreaks, Units, WordParts, Letters
  <1>10. QED
    BY <1>7, <1>8, <1>9 DEF BrokenOff

\* What the lexer complains of is in a line that is wrong.
LEMMA LexComplains ==
  ASSUME LexInv, Clean, diagnostics = {}, diagnostics' # {}, Lex, NEW first, Layout(first)
  PROVE  \E k \in DOMAIN lines : AcceptedKind(lines[k]) = "wrong"
  <1>1. /\ source \in Seq(Units) /\ Len(source) \in Nat /\ DOMAIN source = 1..Len(source)
        /\ at \in 1..Len(source) + 1 /\ at \in Nat \ {0}
        /\ phase = "string" =>
             opened \in 1..at - 1 /\ opened \in Nat \ {0} /\ opened < at /\ LexedTo = opened
        /\ phase = "lex" => LexedTo = at
    BY DEF LexInv, LexedTo
  <1>2. /\ Unit \in Units \cup {Null} /\ (Ended <=> Unit = Null) /\ UnitAt(at) = Unit
        /\ Unit \in Units => at \in 1..Len(source) /\ source[at] = Unit
    BY <1>1, UnitIsThere
  <1>3. BreakString \/ Escape \/ UnexpectedCharacter
    BY DEF Lex, SkipBlank, LexNewline, OpenString, CloseString, StringChar, LexWord, EndOfFile
  <1>4. CASE BreakString \/ Escape
    <2>1. phase = "string" /\ StringSoFar(Seg(opened, at))
      BY <1>4 DEF BreakString, Escape, Clean
    <2>2. /\ BrokenOff(at) \/ (UnitAt(at) = "backslash" /\ UnitAt(at + 1) \notin Escapable)
      BY <1>2, <1>4 DEF BreakString, Escape
    <2>3. \A t : Shaped(t) => t.from # opened
      BY <2>1, <2>2, StringStops
    <2>4. opened \in DOMAIN source /\ source[opened] = "quote"
      <3>1. opened <= at /\ at <= Len(source) + 1 /\ 1 \in 1..at - opened
            /\ opened + 1 - 1 = opened /\ opened \in 1..Len(source)
        BY <1>1, <2>1
      <3>2. Seg(opened, at)[1] = source[opened]
        <4>1. \A i \in 1..at - opened : Seg(opened, at)[i] = source[opened + i - 1]
          BY <1>1, <2>1, <3>1, SegIs
        <4>2. QED
          BY <3>1, <4>1
      <3>3. QED
        BY <1>1, <2>1, <3>1, <3>2 DEF StringSoFar
    <2>5. BreakAt(opened) = 0 /\ source[opened] # "blank"
      <3>1. ~(opened > Len(source))
        BY <1>1, <2>1
      <3>2. QED
        BY <2>4, <3>1 DEF BreakAt, UnitAt
    <2>6. opened = LexedTo
      BY <1>1, <2>1
    <2>7. QED
      BY <2>1, <2>3, <2>4, <2>5, <2>6, WrongLine
  <1>5. CASE UnexpectedCharacter
    <2>1. /\ phase = "lex" /\ Unit \notin Letters \cup {"blank", "quote"} /\ BreakAt(at) = 0
          /\ at \in DOMAIN source /\ source[at] = Unit
      BY <1>1, <1>2, <1>5 DEF UnexpectedCharacter
    <2>2. \A t : Shaped(t) => t.from # at
      BY <1>1, <2>1, ShapedIs
    <2>3. at = LexedTo /\ source[at] # "blank"
      BY <1>1, <2>1
    <2>4. QED
      BY <2>1, <2>2, <2>3, WrongLine
  <1>6. QED
    BY <1>3, <1>4, <1>5

LEMMA LayoutStays ==
  ASSUME UNCHANGED <<lines, source>>, NEW first, Layout(first)
  PROVE  Layout(first)'
  <1>1. \A k : Past(first, k)' = Past(first, k)
    BY DEF Past
  <1>2. \A i : BreakAt(i)' = BreakAt(i)
    BY DEF BreakAt, UnitAt
  <1>3. \A l, x, y : LineAt(l, x, y)' <=> LineAt(l, x, y)
    BY TextStays
  <1>4. QED
    BY <1>1, <1>2, <1>3 DEF Layout

LEMMA LexKeepsLangInv ==
  ASSUME LexInv, ParseInv, LangInv, Lex
  PROVE  LangInv'
  <1>1. phase \in {"lex", "string"} /\ UNCHANGED <<lines, source, section>>
    BY DEF Lex, SkipBlank, LexNewline, OpenString, CloseString, BreakString, Escape,
       StringChar, LexWord, UnexpectedCharacter, EndOfFile, input, parsed
  <1>2. section = "goal" /\ section' = "goal"
    BY <1>1 DEF ParseInv
  <1>3. diagnostics \subseteq diagnostics'
    BY DEF Lex, SkipBlank, LexNewline, OpenString, CloseString, BreakString, Escape,
       StringChar, LexWord, UnexpectedCharacter, EndOfFile, Report
  <1>4. PICK first : Layout(first)
    BY DEF LangInv
  <1>5. \E f : Layout(f)'
    BY <1>1, <1>4, LayoutStays
  <1>6. diagnostics' = {} => Clean'
    BY <1>3, LexKeepsClean DEF LangInv
  <1>7. diagnostics' # {} => \E k \in DOMAIN lines : AcceptedKind(lines[k]) = "wrong"
    BY <1>2, <1>4, LexComplains DEF LangInv
  <1>8. QED
    BY <1>1, <1>2, <1>5, <1>6, <1>7 DEF LangInv

\* A document is parsed if the lexer has not complained.
LEMMA LexKeepsFormInv ==
  ASSUME ParseInv, Lex
  PROVE  FormInv'
  <1>1. phase \in {"lex", "string"} /\ section' = section
    BY DEF Lex, SkipBlank, LexNewline, OpenString, CloseString, BreakString, Escape,
       StringChar, LexWord, UnexpectedCharacter, EndOfFile, parsed
  <1>2. phase' = "parse" => diagnostics' = {}
    BY DEF Lex, SkipBlank, LexNewline, OpenString, CloseString, BreakString, Escape,
       StringChar, LexWord, UnexpectedCharacter, EndOfFile
  <1>3. QED
    BY <1>1, <1>2 DEF FormInv, ParseInv

LEMMA CleanStays ==
  ASSUME UNCHANGED <<source, tokens, at, opened>>, phase # "string", phase' # "string", Clean
  PROVE  Clean'
  <1>1. LexedTo' = LexedTo
    BY DEF LexedTo
  <1>2. Accounted(tokens, {}, LexedTo)'
    BY <1>1 DEF Clean, Accounted
  <1>3. \A t \in DOMAIN tokens' : Lexeme(tokens'[t])
    BY DEF Clean
  <1>4. QED
    BY <1>2, <1>3, TextStays DEF Clean

\* The parser leaves what the lexer has made as it is.
LEMMA ParseKeepsLangInv ==
  ASSUME FormInv, LangInv, Parse
  PROVE  LangInv'
  <1>1. /\ phase = "parse" /\ phase' \in {"parse", "done"} /\ section' # "goal"
        /\ UNCHANGED <<lines, source, tokens, at, opened>>
    BY DEF Parse, ParseGoal, ParseCapability, ParseCheck, SkipLine, Conclude, input, lexer
  <1>2. Clean
    BY <1>1 DEF FormInv, LangInv
  <1>3. Clean'
    BY <1>1, <1>2, CleanStays
  <1>4. \E f : Layout(f)'
    BY <1>1, LayoutStays DEF LangInv
  <1>5. QED
    BY <1>1, <1>3, <1>4 DEF LangInv

LangIInv == IInv /\ FormInv /\ LangInv

LEMMA InitLangIInv == Init => LangIInv
  <1> SUFFICES ASSUME Init  PROVE LangIInv
    OBVIOUS
  <1>1. IInv
    BY InitIInv
  <1>2. /\ phase = "lex" /\ at = 1 /\ tokens = <<>> /\ diagnostics = {} /\ section = "goal"
    BY DEF Init
  <1>3. source \in Seq(Units)
    BY <1>1 DEF IInv, LexInv
  <1>4. \E first : Layout(first)
    BY <1>3, InitLayout
  <1>5. Clean
    BY <1>2, <1>3 DEF Clean, Accounted, LexedTo
  <1>6. FormInv /\ LangInv
    BY <1>2, <1>4, <1>5 DEF FormInv, LangInv
  <1>7. QED
    BY <1>1, <1>6 DEF LangIInv

LEMMA NextLangIInv == LangIInv /\ [Next]_vars => LangIInv'
  <1> SUFFICES ASSUME LangIInv, [Next]_vars  PROVE LangIInv'
    OBVIOUS
  <1>1. IInv'
    BY NextIInv DEF LangIInv
  <1>2. CASE Lex
    BY <1>1, <1>2, LexKeepsFormInv, LexKeepsLangInv DEF LangIInv, IInv
  <1>3. CASE Parse
    BY <1>1, <1>3, ParseKeepsFormInv, ParseKeepsLangInv DEF LangIInv, IInv
  <1>4. CASE UNCHANGED vars
    <2>1. /\ UNCHANGED <<lines, source, phase, at, opened, tokens>>
          /\ UNCHANGED <<section, index, goal, capabilities, checks, saw, diagnostics, ast>>
      BY <1>4 DEF vars, input, lexer, parsed
    <2>2. /\ \A s : Opens(s)' <=> Opens(s)
          /\ \A kind : LinesAs(kind)' = LinesAs(kind)
          /\ WellFormed' <=> WellFormed
      BY <2>1, FormStay
    <2>3. FormInv'
      BY <2>1, <2>2 DEF LangIInv, FormInv, Accepted
    <2>4. Clean => Clean'
      <3>1. LexedTo' = LexedTo
        BY <2>1 DEF LexedTo
      <3>2. Seg(opened, at)' = Seg(opened, at)
        BY <2>1 DEF Seg
      <3>3. StringSoFar(Seg(opened, at)) => StringSoFar(Seg(opened, at))'
        BY <3>2 DEF StringSoFar
      <3>4. ASSUME Clean
            PROVE  /\ \A t \in DOMAIN tokens' : Lexeme(tokens'[t])
                   /\ Accounted(tokens, {}, LexedTo)'
        BY <2>1, <3>1, <3>4 DEF Clean, Accounted
      <3>5. QED
        BY <2>1, <3>3, <3>4, TextStays DEF Clean
    <2>5. \E f : Layout(f)'
      BY <2>1, LayoutStays DEF LangIInv, LangInv
    <2>6. LangInv'
      BY <2>1, <2>4, <2>5 DEF LangIInv, LangInv
    <2>7. QED
      BY <1>1, <2>3, <2>6 DEF LangIInv
  <1>5. QED
    BY <1>2, <1>3, <1>4 DEF Next

LEMMA SpecLangIInv == Spec => []LangIInv
  BY InitLangIInv, NextLangIInv, PTL DEF Spec
-----------------------------------------------------------------------------
(* The lines of a document, as lines of tokens.                              *)

\* A document whose every unit is a blank or in a token.
LexedInto(first) ==
  /\ Lexed /\ source \in Seq(Units) /\ Layout(first)
  /\ \A t \in DOMAIN tokens : Lexeme(tokens[t])
  /\ \A i \in DOMAIN source : source[i] = "blank" \/ \E t \in DOMAIN tokens : Under(i, tokens[t])

\* The tokens of a line.
On(first, k) ==
  {s \in DOMAIN tokens : /\ Kind(s) \notin LineEnds
                         /\ first[k] <= tokens[s].from /\ tokens[s].to <= Past(first, k)}

LEMMA LexemeIs ==
  ASSUME NEW first, LexedInto(first), NEW s \in DOMAIN tokens
  PROVE  /\ s \in Nat \ {0} /\ tokens[s].from \in Nat /\ tokens[s].to \in Nat
         /\ Kind(s) \notin LineEnds => Shaped(tokens[s])
         /\ Kind(s) # "EOF" => tokens[s].from < tokens[s].to /\ s + 1 \in DOMAIN tokens
         /\ Kind(s) # "EOF" <=> s # Len(tokens)
  <1>1. /\ DOMAIN tokens = 1..Len(tokens) /\ Len(tokens) \in Nat \ {0}
        /\ Kind(s) = "EOF" <=> s = Len(tokens)
        /\ tokens[s].from \in Nat /\ tokens[s].to \in Nat
    BY DEF LexedInto, Lexed
  <1>2. source \in Seq(Units)
    BY DEF LexedInto
  <1>3. Shaped(tokens[s]) \/ BreakToken(tokens[s]) \/ EndToken(tokens[s])
    BY DEF LexedInto, Lexeme
  <1>4. CASE Shaped(tokens[s])
    BY <1>1, <1>2, <1>4, ShapedIs DEF Kind, LineEnds
  <1>5. CASE BreakToken(tokens[s])
    BY <1>1, <1>2, <1>5, BreakTokenIs DEF Kind, LineEnds, BreakToken
  <1>6. CASE EndToken(tokens[s])
    BY <1>1, <1>6 DEF EndToken, Kind, LineEnds
  <1>7. QED
    BY <1>3, <1>4, <1>5, <1>6

\* A token that ends no line is on a line.
LEMMA EachOnALine ==
  ASSUME NEW first, LexedInto(first), NEW s \in DOMAIN tokens, Kind(s) \notin LineEnds
  PROVE  \E k \in DOMAIN lines : s \in On(first, k)
  <1>1. Shaped(tokens[s]) /\ source \in Seq(Units) /\ Layout(first)
    BY LexemeIs DEF LexedInto
  <1> DEFINE i == tokens[s].from
  <1>2. /\ i \in DOMAIN source /\ i \in Nat /\ i <= i /\ i < tokens[s].to
        /\ source[i] \in Letters \cup {"quote"}
    BY <1>1, ShapedIs
  <1>3. BreakAt(i) = 0
    <2>1. UnitAt(i) \in Letters \cup {"quote"}
      <3>1. ~(i > Len(source))
        BY <1>1, <1>2
      <3>2. QED
        BY <1>2, <3>1 DEF UnitAt
    <2>2. QED
      BY <2>1 DEF BreakAt, Letters, Keywords
  <1>4. PICK k \in DOMAIN lines : first[k] <= i /\ i < Past(first, k)
    <2>1. ~(BreakAt(i) > 0)
      BY <1>3
    <2>2. QED
      BY <1>1, <1>2, <2>1 DEF Layout
  <1>5. Under(i, tokens[s])
    BY <1>2 DEF Under
  <1>6. Lexeme(tokens[s]) /\ LineAt(lines[k], first[k], Past(first, k))
    BY <1>1 DEF Lexeme, Layout
  <1> HIDE DEF i
  <1>7. first[k] <= tokens[s].from /\ tokens[s].to <= Past(first, k)
    BY <1>1, <1>2, <1>4, <1>5, <1>6, InsideLine
  <1>8. QED
    BY <1>7 DEF On

\* A line that comes before another one ends before it.
LEMMA LinesApart ==
  ASSUME NEW first, LexedInto(first), NEW j \in DOMAIN lines, NEW k \in DOMAIN lines
  PROVE  /\ first[k] \in Nat /\ Past(first, k) \in Nat /\ first[k] <= Past(first, k)
         /\ j \in Nat /\ k \in Nat
         /\ j < k => Past(first, j) < first[k]
         /\ \A s \in On(first, j), t \in On(first, k) : s \in Nat /\ t \in Nat /\ (j < k => s < t)
  <1>1. Layout(first) /\ lines \in Documents
    BY DEF LexedInto, Layout
  <1>2. /\ first[k] \in Nat /\ Past(first, k) \in Nat /\ first[k] <= Past(first, k)
        /\ j < k => Past(first, j) < first[k]
        /\ Past(first, j) \in Nat
    <2>1. LineAt(lines[k], first[k], Past(first, k)) /\ LineAt(lines[j], first[j], Past(first, j))
      BY <1>1 DEF Layout
    <2>2. Len(lines[k]) \in Nat /\ Len(lines[j]) \in Nat
      BY <2>1 DEF LineAt
    <2>3. QED
      BY <1>1, <2>1, <2>2 DEF Layout, LineAt
  <1>3. j \in Nat /\ k \in Nat
    <2>1. lines \in Seq(Seq(Units \ {"lf"}))
      BY <1>1, LineAssumption
    <2>2. QED
      BY <2>1
  <1>4. ASSUME NEW s \in On(first, j), NEW t \in On(first, k), j < k
        PROVE  s < t
    <2>1. s \in DOMAIN tokens /\ t \in DOMAIN tokens /\ tokens[s].to <= Past(first, j)
          /\ first[k] <= tokens[t].from /\ Kind(s) \notin LineEnds /\ Kind(t) \notin LineEnds
      BY DEF On
    <2>2. /\ s \in Nat /\ t \in Nat /\ tokens[s].to \in Nat /\ tokens[t].from \in Nat
          /\ tokens[s].from \in Nat /\ tokens[s].from < tokens[s].to
      BY <2>1, LexemeIs DEF LineEnds
    <2>3. tokens[s].to < tokens[t].from /\ tokens[s].from < tokens[t].from
      BY <1>2, <1>4, <2>1, <2>2
    <2>4. ~(t < s) /\ t # s
      <3>1. t < s => tokens[t].from < tokens[s].from
        BY <2>1 DEF LexedInto, Lexed
      <3>2. QED
        BY <2>2, <2>3, <3>1
    <2>5. QED
      BY <2>2, <2>4
  <1>5. \A s \in On(first, j), t \in On(first, k) : s \in Nat /\ t \in Nat
    BY LexemeIs DEF On
  <1>6. QED
    BY <1>2, <1>3, <1>4, <1>5

\* A line's tokens come one behind the other.
LEMMA NoGapOn ==
  ASSUME NEW first, LexedInto(first), NEW k \in DOMAIN lines, NEW s \in On(first, k),
         NEW t \in On(first, k), NEW u \in Nat, s <= u, u <= t
  PROVE  u \in On(first, k)
  <1> DEFINE x == first[k]
             y == Past(first, k)
  <1>1. /\ s \in DOMAIN tokens /\ t \in DOMAIN tokens /\ s \in Nat /\ t \in Nat
        /\ x <= tokens[s].from /\ tokens[t].to <= y /\ Kind(t) \notin LineEnds
        /\ x \in Nat /\ y \in Nat
    BY LexemeIs, LinesApart DEF On
  <1>2. DOMAIN tokens = 1..Len(tokens) /\ Len(tokens) \in Nat /\ u \in DOMAIN tokens
    BY <1>1 DEF LexedInto, Lexed
  <1>3. CASE u = s \/ u = t
    BY <1>3
  <1>4. CASE s < u /\ u < t
    <2>1. /\ tokens[s].to <= tokens[u].from /\ tokens[u].to <= tokens[t].from
          /\ tokens[s].from < tokens[u].from /\ tokens[u].from < tokens[t].from
      BY <1>1, <1>2, <1>4 DEF LexedInto, Lexed
    <2>2. /\ Kind(u) # "EOF" /\ tokens[u].from < tokens[u].to /\ tokens[u].from \in Nat
          /\ tokens[u].to \in Nat
      <3>1. u # Len(tokens)
        BY <1>1, <1>2, <1>4
      <3>2. QED
        BY <1>2, <3>1, LexemeIs
    <2>3. /\ tokens[s].from \in Nat /\ tokens[t].from \in Nat /\ tokens[t].to \in Nat
          /\ tokens[t].from < tokens[t].to
      BY <1>1, LexemeIs DEF LineEnds
    <2>4. x <= tokens[u].from /\ tokens[u].from < y /\ tokens[u].to <= y
      BY <1>1, <2>1, <2>2, <2>3
    <2>5. Shaped(tokens[u])
      <3>1. LineAt(lines[k], x, y) /\ source \in Seq(Units) /\ Lexeme(tokens[u])
        BY <1>2 DEF LexedInto, Layout
      <3>2. Under(tokens[u].from, tokens[u])
        BY <2>2 DEF Under
      <3> HIDE DEF x, y
      <3>3. QED
        BY <2>2, <2>4, <3>1, <3>2, InsideLine
    <2>6. Kind(u) \notin LineEnds
      <3>1. source \in Seq(Units)
        BY DEF LexedInto
      <3>2. QED
        BY <2>5, <3>1, ShapedIs DEF Kind
    <2>7. QED
      BY <1>2, <2>4, <2>6 DEF On
  <1>5. QED
    BY <1>1, <1>3, <1>4

\* There is a break between two lines, and it is a token.
LEMMA NextOn ==
  ASSUME NEW first, LexedInto(first), NEW k \in DOMAIN lines, NEW s \in On(first, k),
         NEW t, t = s + 1, t \in DOMAIN tokens, Kind(t) \notin LineEnds
  PROVE  t \in On(first, k)
  <1>1. PICK j \in DOMAIN lines : t \in On(first, j)
    BY EachOnALine
  <1>2. CASE j = k
    BY <1>1, <1>2
  <1>3. CASE j < k
    <2>1. t < s
      BY <1>1, <1>3, LinesApart
    <2>2. s \in Nat
      BY LexemeIs DEF On
    <2>3. QED
      BY <2>1, <2>2
  <1>4. CASE k < j
    <2> DEFINE y == Past(first, k)
    <2>1. y < first[j] /\ y \in Nat /\ first[j] \in Nat
      BY <1>4, LinesApart
    <2>2. /\ s \in DOMAIN tokens /\ s \in Nat /\ tokens[s].to <= y
          /\ first[j] <= tokens[t].from /\ tokens[s].to \in Nat /\ tokens[s].from \in Nat
          /\ tokens[s].from < tokens[s].to /\ tokens[t].from \in Nat
      BY <1>1, LexemeIs DEF On, LineEnds
    <2>3. /\ source \in Seq(Units) /\ LineAt(lines[k], first[k], y)
          /\ \A i \in DOMAIN source : source[i] = "blank" \/ \E u \in DOMAIN tokens : Under(i, tokens[u])
      BY DEF LexedInto, Layout
    <2>4. y \in DOMAIN source /\ y <= Len(source)
      <3>1. tokens[t].from \in 1..Len(source)
        <4>1. Shaped(tokens[t])
          BY LexemeIs
        <4>2. QED
          BY <2>3, <4>1, ShapedIs
      <3>2. 1 <= y /\ Len(source) \in Nat
        BY <2>2, <2>3 DEF LineAt
      <3>3. QED
        BY <2>1, <2>2, <2>3, <3>1, <3>2
    <2>5. source[y] # "blank"
      <3>1. BreakAt(y) > 0 /\ ~(y > Len(source))
        BY <2>1, <2>3, <2>4 DEF LineAt
      <3>2. QED
        BY <3>1 DEF BreakAt, UnitAt
    <2>6. PICK u \in DOMAIN tokens : tokens[u].from <= y /\ y < tokens[u].to
      BY <2>3, <2>4, <2>5 DEF Under
    <2>7. u \in Nat /\ tokens[u].from \in Nat /\ tokens[u].to \in Nat
      BY LexemeIs
    <2> HIDE DEF y
    <2>8. u # s /\ ~(u < s)
      <3>1. u < s => tokens[u].to <= tokens[s].from
        BY <2>2 DEF LexedInto, Lexed
      <3>2. QED
        BY <2>1, <2>2, <2>6, <2>7, <3>1
    <2>9. u # t /\ ~(t < u)
      <3>1. t < u => tokens[t].from < tokens[u].from
        BY DEF LexedInto, Lexed
      <3>2. QED
        BY <2>1, <2>2, <2>6, <2>7, <3>1
    <2>10. QED
      BY <2>2, <2>7, <2>8, <2>9
  <1>5. QED
    BY <1>2, <1>3, <1>4, LinesApart

LEMMA OnOneLine ==
  ASSUME NEW first, LexedInto(first), NEW j \in DOMAIN lines, NEW k \in DOMAIN lines,
         NEW s, s \in On(first, j), s \in On(first, k)
  PROVE  j = k
  <1>1. j \in Nat /\ k \in Nat /\ s \in Nat /\ ~(s < s)
    BY LinesApart
  <1>2. ~(j < k) /\ ~(k < j)
    BY <1>1, LinesApart
  <1>3. QED
    BY <1>1, <1>2

\* A line's first token is the one that opens it.
LEMMA OpensFirst ==
  ASSUME NEW first, LexedInto(first), NEW k \in DOMAIN lines, NEW s \in On(first, k)
  PROVE  Opens(s) <=> \A t \in On(first, k) : s <= t
  <1>1. /\ s \in DOMAIN tokens /\ Kind(s) \notin LineEnds /\ s \in Nat \ {0}
        /\ \A t \in On(first, k) : t \in Nat \ {0}
    BY LexemeIs DEF On
  <1>2. ASSUME Opens(s), NEW t \in On(first, k), t < s  PROVE FALSE
    <2>1. s - 1 \in Nat /\ t <= s - 1 /\ s - 1 <= s /\ s # 1
      BY <1>1, <1>2
    <2>2. s - 1 \in On(first, k)
      BY <2>1, NoGapOn
    <2>3. Kind(s - 1) = "Newline"
      BY <1>2, <2>1 DEF Opens
    <2>4. QED
      BY <2>2, <2>3 DEF On, LineEnds
  <1>3. ASSUME \A t \in On(first, k) : s <= t  PROVE Opens(s)
    <2> SUFFICES ASSUME s # 1  PROVE Kind(s - 1) = "Newline"
      BY <1>1 DEF Opens
    <2>1. /\ s - 1 \in DOMAIN tokens /\ s = s - 1 + 1 /\ s - 1 # Len(tokens) /\ ~(s <= s - 1)
      BY <1>1 DEF LexedInto, Lexed
    <2>2. ASSUME Kind(s - 1) \notin LineEnds  PROVE FALSE
      <3>1. PICK j \in DOMAIN lines : s - 1 \in On(first, j)
        BY <2>1, <2>2, EachOnALine
      <3>2. s \in On(first, j)
        BY <1>1, <2>1, <3>1, NextOn
      <3>3. j = k
        BY <3>2, OnOneLine
      <3>4. QED
        BY <1>3, <2>1, <3>1, <3>3
    <2>3. Kind(s - 1) # "EOF"
      BY <2>1, LexemeIs
    <2>4. QED
      BY <2>2, <2>3 DEF LineEnds
  <1>4. ASSUME Opens(s), NEW t \in On(first, k)  PROVE s <= t
    BY <1>1, <1>2, <1>4
  <1>5. QED
    BY <1>3, <1>4

\* A line that has tokens has one that opens it, and no other.
LEMMA LineOpens ==
  ASSUME NEW first, LexedInto(first), NEW k \in DOMAIN lines
  PROVE  /\ On(first, k) # {} => \E s \in On(first, k) : Opens(s)
         /\ \A s, t \in On(first, k) : Opens(s) /\ Opens(t) => s = t
  <1>1. On(first, k) \in SUBSET Nat
    BY LexemeIs DEF On
  <1>2. ASSUME On(first, k) # {}  PROVE \E s \in On(first, k) : Opens(s)
    <2>1. PICK s \in On(first, k) : \A t \in On(first, k) : s <= t
      BY <1>1, <1>2, Smallest
    <2>2. QED
      BY <2>1, OpensFirst
  <1>3. ASSUME NEW s \in On(first, k), NEW t \in On(first, k), Opens(s), Opens(t)
        PROVE  s = t
    <2>1. s <= t /\ t <= s
      BY <1>3, OpensFirst
    <2>2. QED
      BY <1>1, <2>1
  <1>4. QED
    BY <1>2, <1>3

\* A line is lexed to the tokens that are on it, and to no others.
LEMMA OnIsLexed ==
  ASSUME NEW first, LexedInto(first), NEW k \in DOMAIN lines
  PROVE  /\ LexOf({tokens[s] : s \in On(first, k)}, first[k], Past(first, k))
         /\ \A T : LexOf(T, first[k], Past(first, k)) => T = {tokens[s] : s \in On(first, k)}
  <1> DEFINE x == first[k]
             y == Past(first, k)
             T == {tokens[s] : s \in On(first, k)}
  <1>1. /\ source \in Seq(Units) /\ LineAt(lines[k], x, y) /\ Ordered
        /\ \A t \in DOMAIN tokens : Lexeme(tokens[t])
        /\ \A i \in DOMAIN source : source[i] = "blank" \/ \E t \in DOMAIN tokens : Under(i, tokens[t])
    BY DEF LexedInto, Layout, Lexed, Ordered
  <1>2. x \in Nat \ {0} /\ y \in Nat /\ x <= y /\ y <= Len(source) + 1 /\ y \in x..y
    <2>1. x <= y /\ y \in Nat
      BY LinesApart
    <2>2. QED
      BY <1>1, <2>1 DEF LineAt
  <1>3. \A i \in x..y - 1 : i \in DOMAIN source
    BY <1>1, <1>2
  <1>4. T = TokensIn(x, y)
    BY DEF TokensIn, On
  <1> HIDE DEF x, y, T
  <1>5. LexOf(TokensIn(x, y), x, y)
    BY <1>1, <1>2, <1>3, LineIsLexed
  <1>6. LexOf(T, x, y)
    BY <1>4, <1>5
  <1>7. \A U : LexOf(U, x, y) => U = T
    BY <1>1, <1>2, <1>6, LexedOnce
  <1>8. QED
    BY <1>6, <1>7 DEF x, y, T

\* A whole declaration, part by part.
LEMMA WholeGoal ==
  ASSUME Lexed, NEW s \in DOMAIN tokens
  PROVE  Whole(s, "GoalKeyword") <=>
           /\ Kind(s) = "GoalKeyword" /\ s + 2 \in DOMAIN tokens
           /\ Kind(s + 1) = "StringLiteral" /\ Kind(s + 2) \in LineEnds
  <1> SUFFICES ASSUME Kind(s) = "GoalKeyword"
               PROVE  Whole(s, "GoalKeyword") <=>
                        /\ s + 2 \in DOMAIN tokens
                        /\ Kind(s + 1) = "StringLiteral" /\ Kind(s + 2) \in LineEnds
    BY DEF Whole
  <1> DEFINE form == Form[Kind(s)]
             m == Matched(s)
  <1>1. form = <<"StringLiteral">> /\ Kind(s) \in DeclarationKinds /\ s \in Nat
    BY DEF Form, DeclarationKinds, Lexed
  <1>2. Len(form) = 1 /\ form[1] = "StringLiteral"
    BY <1>1
  <1>3. /\ m \in 0..Len(form) /\ \A k \in 1..m : Kind(s + k) = form[k]
        /\ m < Len(form) => Kind(s + m + 1) # form[m + 1]
    BY <1>1, MatchedFits
  <1>4. Behind(s) = s + 1 + m /\ Behind(s) \in DOMAIN tokens /\ (Declared(s) <=> m = Len(form))
    BY <1>1, MatchedIs DEF Behind, Declared
  <1> HIDE DEF m, form
  <1>5. m \in {0, 1} /\ s + 1 + 1 = s + 2 /\ s + 0 + 1 = s + 1
    BY <1>1, <1>2, <1>3
  <1>6. m = 1 <=> Kind(s + 1) = "StringLiteral"
    <2>1. CASE m = 1
      BY <1>2, <1>3, <2>1
    <2>2. CASE m = 0
      BY <1>2, <1>3, <1>5, <2>2
    <2>3. QED
      BY <1>5, <2>1, <2>2
  <1>7. QED
    BY <1>2, <1>4, <1>5, <1>6 DEF Whole

LEMMA WholeNamed ==
  ASSUME Lexed, NEW s \in DOMAIN tokens, NEW kind \in {"CapabilityKeyword", "CheckKeyword"}
  PROVE  Whole(s, kind) <=>
           /\ Kind(s) = kind /\ s + 3 \in DOMAIN tokens
           /\ Kind(s + 1) = "Identifier" /\ Kind(s + 2) = "StringLiteral"
           /\ Kind(s + 3) \in LineEnds
  <1> SUFFICES ASSUME Kind(s) = kind
               PROVE  Whole(s, kind) <=>
                        /\ s + 3 \in DOMAIN tokens
                        /\ Kind(s + 1) = "Identifier" /\ Kind(s + 2) = "StringLiteral"
                        /\ Kind(s + 3) \in LineEnds
    BY DEF Whole
  <1> DEFINE form == Form[Kind(s)]
             m == Matched(s)
  <1>1. form = <<"Identifier", "StringLiteral">> /\ Kind(s) \in DeclarationKinds /\ s \in Nat
    BY DEF Form, DeclarationKinds, Lexed
  <1>2. Len(form) = 2 /\ form[1] = "Identifier" /\ form[2] = "StringLiteral"
    BY <1>1
  <1>3. /\ m \in 0..Len(form) /\ \A k \in 1..m : Kind(s + k) = form[k]
        /\ m < Len(form) => Kind(s + m + 1) # form[m + 1]
    BY SMTT(40), <1>1, MatchedFits
  <1>4. Behind(s) = s + 1 + m /\ Behind(s) \in DOMAIN tokens /\ (Declared(s) <=> m = Len(form))
    BY <1>1, MatchedIs DEF Behind, Declared
  <1> HIDE DEF m, form
  <1>5. m \in {0, 1, 2} /\ s + 1 + 2 = s + 3 /\ s + 0 + 1 = s + 1 /\ s + 1 + 1 = s + 2
    BY <1>1, <1>2, <1>3
  <1>6. m = 2 <=> Kind(s + 1) = "Identifier" /\ Kind(s + 2) = "StringLiteral"
    <2>1. CASE m = 2
      BY <1>2, <1>3, <2>1
    <2>2. CASE m = 1
      BY <1>2, <1>3, <1>5, <2>2
    <2>3. CASE m = 0
      BY <1>2, <1>3, <1>5, <2>3
    <2>4. QED
      BY <1>5, <2>1, <2>2, <2>3
  <1>7. QED
    BY <1>2, <1>4, <1>5, <1>6 DEF Whole

\* The order of tokens is that of their places.
LEMMA OnInOrder ==
  ASSUME NEW first, LexedInto(first), NEW k \in DOMAIN lines, NEW s \in On(first, k),
         NEW t \in On(first, k)
  PROVE  /\ s \in Nat /\ s \in DOMAIN tokens /\ s + 1 \in DOMAIN tokens
         /\ Kind(s) \notin LineEnds
         /\ tokens[s] = tokens[t] => s = t
         /\ tokens[s].to <= tokens[t].from <=> s < t
         /\ s + 1 \notin On(first, k) => Kind(s + 1) \in LineEnds
  <1>1. /\ s \in DOMAIN tokens /\ t \in DOMAIN tokens
        /\ Kind(s) \notin LineEnds /\ Kind(t) \notin LineEnds
    BY DEF On
  <1>2. /\ s \in Nat /\ t \in Nat /\ s + 1 \in DOMAIN tokens
        /\ tokens[s].from \in Nat /\ tokens[s].to \in Nat /\ tokens[s].from < tokens[s].to
        /\ tokens[t].from \in Nat /\ tokens[t].to \in Nat /\ tokens[t].from < tokens[t].to
    BY <1>1, LexemeIs DEF LineEnds
  <1>3. /\ s < t => tokens[s].from < tokens[t].from /\ tokens[s].to <= tokens[t].from
        /\ t < s => tokens[t].from < tokens[s].from /\ tokens[t].to <= tokens[s].from
    BY <1>1 DEF LexedInto, Lexed
  <1>4. tokens[s] = tokens[t] => s = t
    BY <1>2, <1>3
  <1>5. tokens[s].to <= tokens[t].from <=> s < t
    BY <1>2, <1>3
  <1>6. s + 1 \notin On(first, k) => Kind(s + 1) \in LineEnds
    BY <1>2, NextOn
  <1>7. QED
    BY <1>1, <1>2, <1>4, <1>5, <1>6

\* A line is a goal if its tokens are a goal's.
LEMMA GoalLine ==
  ASSUME NEW first, LexedInto(first), NEW k \in DOMAIN lines, NEW s \in On(first, k), Opens(s)
  PROVE  AcceptsGoal(lines[k]) <=> Whole(s, "GoalKeyword")
  <1> DEFINE O == On(first, k)
             T == {tokens[u] : u \in O}
             x == first[k]
             y == Past(first, k)
  <1>1. \A u \in O : s <= u
    BY OpensFirst
  <1>2. AcceptsGoal(lines[k]) <=> \E a, b : GoalTokens(a, b, x, y)
    <2>1. source \in Seq(Units) /\ LineAt(lines[k], x, y)
      BY DEF LexedInto, Layout
    <2> HIDE DEF x, y
    <2>2. QED
      BY <2>1, GoalLexes
  <1>3. LexOf(T, x, y) /\ \A U : LexOf(U, x, y) => U = T
    BY OnIsLexed
  <1>4. Whole(s, "GoalKeyword") <=>
          /\ Kind(s) = "GoalKeyword" /\ s + 2 \in DOMAIN tokens
          /\ Kind(s + 1) = "StringLiteral" /\ Kind(s + 2) \in LineEnds
    BY OnInOrder, WholeGoal DEF LexedInto
  <1>5. \A u, v \in O :
          /\ u \in Nat /\ u \in DOMAIN tokens /\ u + 1 \in DOMAIN tokens
          /\ Kind(u) \notin LineEnds
          /\ tokens[u] = tokens[v] => u = v
          /\ tokens[u].to <= tokens[v].from <=> u < v
          /\ u + 1 \notin O => Kind(u + 1) \in LineEnds
    BY OnInOrder
  <1>6. \A u, v \in O : \A w \in Nat : u <= w /\ w <= v => w \in O
    BY NoGapOn
  <1>7. \A u \in O : u + 1 \in DOMAIN tokens /\ Kind(u + 1) \notin LineEnds => u + 1 \in O
    BY NextOn
  <1>8. s \in O
    OBVIOUS
  <1> HIDE DEF O, x, y
  <1>9. ASSUME NEW a, NEW b, GoalTokens(a, b, x, y)
        PROVE  Whole(s, "GoalKeyword")
    <2> USE DEF GoalTokens
    <2>1. {a, b} = T
      BY <1>3, <1>9
    <2>2. PICK i \in O : a = tokens[i]
      BY <2>1
    <2>3. PICK j \in O : b = tokens[j]
      BY <2>1
    <2>4. \A u \in O : u = i \/ u = j
      BY <1>5, <2>1, <2>2, <2>3
    <2>5. i < j /\ i \in Nat /\ j \in Nat /\ s \in Nat
      BY <1>5, <1>8, <1>9, <2>2, <2>3
    <2>6. s = i
      BY <1>1, <1>8, <2>4, <2>5
    <2>7. s + 1 \in O
      BY <1>6, <2>5, <2>6
    <2>8. j = s + 1 /\ j + 1 = s + 2
      BY <2>4, <2>5, <2>6, <2>7
    <2>9. j + 1 \notin O
      BY <2>4, <2>5, <2>6, <2>8
    <2>10. Kind(j + 1) \in LineEnds /\ j + 1 \in DOMAIN tokens
      BY <1>5, <2>9
    <2>11. QED
      BY <1>4, <1>9, <2>2, <2>3, <2>6, <2>8, <2>10 DEF Kind
  <1>10. ASSUME Whole(s, "GoalKeyword")
         PROVE  \E a, b : GoalTokens(a, b, x, y)
    <2>1. /\ Kind(s) = "GoalKeyword" /\ Kind(s + 1) = "StringLiteral"
          /\ Kind(s + 2) \in LineEnds
      BY <1>4, <1>10
    <2>2. s + 1 \in O /\ s \in Nat /\ s + 1 \in Nat
      BY <1>5, <1>7, <1>8, <2>1 DEF LineEnds
    <2>3. s + 2 \notin O
      BY <1>5, <2>1
    <2>4. ASSUME NEW u \in O  PROVE u = s \/ u = s + 1
      <3>1. s <= u /\ u \in Nat
        BY <1>1, <1>5
      <3>2. ~(s + 2 <= u)
        <4>1. s <= s + 2 /\ s + 2 \in Nat
          BY <2>2
        <4>2. QED
          BY <1>6, <1>8, <2>3, <4>1
      <3>3. QED
        BY <2>2, <3>1, <3>2
    <2>5. T = {tokens[s], tokens[s + 1]}
      BY <1>8, <2>2, <2>4
    <2>6. tokens[s].to <= tokens[s + 1].from
      BY <1>5, <1>8, <2>2
    <2> HIDE DEF T
    <2>7. GoalTokens(tokens[s], tokens[s + 1], x, y)
      BY <1>3, <2>1, <2>5, <2>6 DEF Kind, GoalTokens
    <2>8. QED
      BY <2>7
  <1>11. QED
    BY <1>2, <1>9, <1>10

\* A line is a capability or a check if its tokens are one's.
LEMMA NamedLine ==
  ASSUME NEW first, LexedInto(first), NEW k \in DOMAIN lines, NEW s \in On(first, k), Opens(s),
         NEW w \in {"capability", "check"}, NEW kind, kind = KeywordKinds[w]
  PROVE  AcceptsNamed(w, lines[k]) <=> Whole(s, kind)
  <1> DEFINE O == On(first, k)
             T == {tokens[u] : u \in O}
             x == first[k]
             y == Past(first, k)
  <1>1. \A u \in O : s <= u
    BY OpensFirst
  <1>2. AcceptsNamed(w, lines[k]) <=> \E a, b, c : NamedTokens(w, a, b, c, x, y)
    <2>1. source \in Seq(Units) /\ LineAt(lines[k], x, y) /\ w \in Keywords
      BY KeywordOf DEF LexedInto, Layout
    <2> HIDE DEF x, y
    <2>2. QED
      BY <2>1, NamedLexes
  <1>3. LexOf(T, x, y) /\ \A U : LexOf(U, x, y) => U = T
    BY OnIsLexed
  <1>4. Whole(s, kind) <=>
          /\ Kind(s) = kind /\ s + 3 \in DOMAIN tokens
          /\ Kind(s + 1) = "Identifier" /\ Kind(s + 2) = "StringLiteral"
          /\ Kind(s + 3) \in LineEnds
    <2>1. kind \in {"CapabilityKeyword", "CheckKeyword"}
      BY KeywordOf
    <2>2. Lexed /\ s \in DOMAIN tokens
      BY DEF LexedInto, On
    <2>3. QED
      BY <2>1, <2>2, WholeNamed
  <1>5. \A u, v \in O :
          /\ u \in Nat /\ u \in DOMAIN tokens /\ u + 1 \in DOMAIN tokens
          /\ Kind(u) \notin LineEnds
          /\ tokens[u] = tokens[v] => u = v
          /\ tokens[u].to <= tokens[v].from <=> u < v
          /\ u + 1 \notin O => Kind(u + 1) \in LineEnds
    BY OnInOrder
  <1>6. \A u, v \in O : \A z \in Nat : u <= z /\ z <= v => z \in O
    BY NoGapOn
  <1>7. \A u \in O : u + 1 \in DOMAIN tokens /\ Kind(u + 1) \notin LineEnds => u + 1 \in O
    BY NextOn
  <1>8. s \in O
    OBVIOUS
  <1> HIDE DEF O, x, y
  <1>9. ASSUME NEW a, NEW b, NEW c, NamedTokens(w, a, b, c, x, y)
        PROVE  Whole(s, kind)
    <2> USE DEF NamedTokens
    <2>1. {a, b, c} = T
      BY <1>3, <1>9
    <2>2. PICK i \in O : a = tokens[i]
      BY <2>1
    <2>3. PICK j \in O : b = tokens[j]
      BY <2>1
    <2>4. PICK l \in O : c = tokens[l]
      BY <2>1
    <2>5. \A u \in O : u = i \/ u = j \/ u = l
      BY <1>5, <2>1, <2>2, <2>3, <2>4
    <2>6. i < j /\ j < l /\ i \in Nat /\ j \in Nat /\ l \in Nat /\ s \in Nat
      BY <1>5, <1>8, <1>9, <2>2, <2>3, <2>4
    <2>7. s = i
      BY <1>1, <1>8, <2>5, <2>6
    <2>8. s + 1 \in O
      <3>1. s <= s + 1 /\ s + 1 <= j /\ s + 1 \in Nat
        BY <2>6, <2>7
      <3>2. QED
        BY <1>6, <1>8, <3>1
    <2>9. j = s + 1
      <3>1. s + 1 <= j /\ s + 1 # i /\ s + 1 # l
        BY <2>6, <2>7
      <3>2. QED
        BY <2>5, <2>8, <3>1
    <2>10. j + 1 \in O
      <3>1. j <= j + 1 /\ j + 1 <= l /\ j + 1 \in Nat
        BY <2>6
      <3>2. QED
        BY <1>6, <3>1
    <2>11. l = j + 1
      <3>1. j + 1 # i /\ j + 1 # j
        BY <2>6
      <3>2. QED
        BY <2>5, <2>10, <3>1
    <2>12. l = s + 2 /\ l + 1 = s + 3
      BY <2>6, <2>9, <2>11
    <2>13. l + 1 \notin O
      <3>1. l + 1 # i /\ l + 1 # j /\ l + 1 # l
        BY <2>6
      <3>2. QED
        BY <2>5, <3>1
    <2>14. Kind(l + 1) \in LineEnds /\ l + 1 \in DOMAIN tokens
      BY <1>5, <2>13
    <2>15. QED
      BY <1>4, <1>9, <2>2, <2>3, <2>4, <2>7, <2>9, <2>12, <2>14 DEF Kind
  <1>10. ASSUME Whole(s, kind)
         PROVE  \E a, b, c : NamedTokens(w, a, b, c, x, y)
    <2>1. /\ Kind(s) = kind /\ Kind(s + 1) = "Identifier" /\ Kind(s + 2) = "StringLiteral"
          /\ Kind(s + 3) \in LineEnds
      BY <1>4, <1>10
    <2>2. s + 1 \in O /\ s \in Nat /\ s + 1 \in Nat
      BY <1>5, <1>7, <1>8, <2>1 DEF LineEnds
    <2>3. s + 2 \in O /\ s + 2 \in Nat
      <3>1. s + 1 + 1 = s + 2
        BY <2>2
      <3>2. s + 2 \in DOMAIN tokens
        BY <1>5, <2>2, <3>1
      <3>3. s + 1 + 1 \in DOMAIN tokens /\ Kind(s + 1 + 1) \notin LineEnds
        BY <2>1, <3>1, <3>2 DEF LineEnds
      <3>4. s + 1 + 1 \in O
        BY <1>7, <2>2, <3>3
      <3>5. QED
        BY <2>2, <3>1, <3>4
    <2>4. s + 3 \notin O
      BY <1>5, <2>1
    <2>5. ASSUME NEW u \in O  PROVE u = s \/ u = s + 1 \/ u = s + 2
      <3>1. s <= u /\ u \in Nat
        BY <1>1, <1>5
      <3>2. ~(s + 3 <= u)
        <4>1. s <= s + 3 /\ s + 3 \in Nat
          BY <2>2
        <4>2. QED
          BY <1>6, <1>8, <2>4, <4>1
      <3>3. QED
        BY <2>2, <3>1, <3>2
    <2>6. T = {tokens[s], tokens[s + 1], tokens[s + 2]}
      BY <1>8, <2>2, <2>3, <2>5
    <2>7. tokens[s].to <= tokens[s + 1].from /\ tokens[s + 1].to <= tokens[s + 2].from
      BY <1>5, <1>8, <2>2, <2>3
    <2> HIDE DEF T
    <2>8. NamedTokens(w, tokens[s], tokens[s + 1], tokens[s + 2], x, y)
      BY <1>3, <2>1, <2>6, <2>7 DEF Kind, NamedTokens
    <2>9. QED
      BY <2>8
  <1>11. QED
    BY <1>2, <1>9, <1>10

\* What a line is shows from the token that opens it.
LEMMA LineTells ==
  ASSUME NEW first, LexedInto(first), NEW k \in DOMAIN lines
  PROVE  /\ AcceptedKind(lines[k]) = "blank" <=> On(first, k) = {}
         /\ \A s \in On(first, k) : Opens(s) =>
              /\ AcceptedKind(lines[k]) = "goal" <=> Whole(s, "GoalKeyword")
              /\ AcceptedKind(lines[k]) = "capability" <=> Whole(s, "CapabilityKeyword")
              /\ AcceptedKind(lines[k]) = "check" <=> Whole(s, "CheckKeyword")
  <1> DEFINE O == On(first, k)
             T == {tokens[u] : u \in O}
             none == {}
             l == lines[k]
             x == first[k]
             y == Past(first, k)
  <1>1. IsBlank(l) <=> LexOf(none, x, y)
    <2>1. source \in Seq(Units) /\ LineAt(l, x, y)
      BY DEF LexedInto, Layout
    <2> HIDE DEF l, x, y
    <2>2. QED
      BY <2>1, BlankLexes
  <1>2. LexOf(T, x, y) /\ \A U : LexOf(U, x, y) => U = T
    BY OnIsLexed
  <1>3. IsBlank(l) <=> O = {}
    <2>1. IsBlank(l) <=> T = none
      <3> HIDE DEF T, none, l, x, y
      <3>1. QED
        BY <1>1, <1>2
    <2>2. T = none <=> O = {}
      BY DEF O
    <2>3. QED
      BY <2>1, <2>2
  <1>4. ASSUME NEW s \in O, Opens(s)
        PROVE  /\ AcceptsGoal(l) <=> Whole(s, "GoalKeyword")
               /\ AcceptsNamed("capability", l) <=> Whole(s, "CapabilityKeyword")
               /\ AcceptsNamed("check", l) <=> Whole(s, "CheckKeyword")
    <2>1. AcceptsGoal(l) <=> Whole(s, "GoalKeyword")
      BY <1>4, GoalLine
    <2>2. ASSUME NEW w \in {"capability", "check"}, NEW kind, kind = KeywordKinds[w]
          PROVE  AcceptsNamed(w, l) <=> Whole(s, kind)
      BY <1>4, <2>2, NamedLine
    <2>3. QED
      BY <2>1, <2>2, KeywordOf
  <1> HIDE DEF O, l
  <1>5. AcceptedKind(l) = "blank" <=> O = {}
    BY <1>3 DEF AcceptedKind
  <1>6. ASSUME NEW s \in O, Opens(s)
        PROVE  /\ AcceptedKind(l) = "goal" <=> Whole(s, "GoalKeyword")
               /\ AcceptedKind(l) = "capability" <=> Whole(s, "CapabilityKeyword")
               /\ AcceptedKind(l) = "check" <=> Whole(s, "CheckKeyword")
    <2>1. ~IsBlank(l)
      BY <1>3
    <2>2. /\ Whole(s, "GoalKeyword") => Kind(s) = "GoalKeyword"
          /\ Whole(s, "CapabilityKeyword") => Kind(s) = "CapabilityKeyword"
          /\ Whole(s, "CheckKeyword") => Kind(s) = "CheckKeyword"
      BY DEF Whole
    <2>3. QED
      BY <1>4, <1>6, <2>1, <2>2 DEF AcceptedKind
  <1>7. QED
    BY <1>5, <1>6 DEF O, l

\* A document of lines is one of lines of tokens.
LEMMA DocumentTells ==
  ASSUME NEW first, LexedInto(first)
  PROVE  IsDocument([i \in DOMAIN lines |-> KindOf[lines[i]]]) <=> WellFormed
  <1> DEFINE kinds == [i \in DOMAIN lines |-> KindOf[lines[i]]]
             said == {i \in DOMAIN kinds : kinds[i] # "blank"}
             As(kind) == {i \in said : kinds[i] = kind}
             R(k, s) == k \in DOMAIN lines /\ s \in On(first, k) /\ Opens(s)
             toks == {s \in DOMAIN tokens : Opens(s)}
             G == LinesAs("GoalKeyword")
             N == LinesAs("CapabilityKeyword")
             C == LinesAs("CheckKeyword")
             goals == As("goal")
             named == As("capability")
             checked == As("check")
  <1>1. \A i \in DOMAIN lines : i \in DOMAIN kinds /\ kinds[i] = AcceptedKind(lines[i])
    <2>1. lines \in Documents
      BY DEF LexedInto, Layout
    <2>2. \A i \in DOMAIN lines : lines[i] \in LineForms
      BY <2>1 DEF LineForms
    <2>3. QED
      BY <2>2 DEF KindOf
  <1>2. \A k \in said : \E s : R(k, s)
    <2>1. ASSUME NEW k \in said  PROVE \E s : R(k, s)
      <3>1. k \in DOMAIN lines /\ AcceptedKind(lines[k]) # "blank"
        BY <1>1
      <3>2. On(first, k) # {}
        BY <3>1, LineTells
      <3>3. QED
        BY <3>1, <3>2, LineOpens
    <2>2. QED
      BY <2>1
  <1>3. \A s \in toks : \E k : R(k, s)
    BY EachOnALine DEF Opens
  <1>4. ASSUME NEW k, NEW s, R(k, s)
        PROVE  /\ k \in said /\ s \in toks /\ k \in Nat /\ s \in Nat
               /\ k \in goals <=> s \in G
               /\ k \in named <=> s \in N
               /\ k \in checked <=> s \in C
    <2>1. k \in DOMAIN lines /\ s \in On(first, k) /\ Opens(s) /\ kinds[k] = AcceptedKind(lines[k])
          /\ k \in DOMAIN kinds
      BY <1>1, <1>4
    <2>2. s \in DOMAIN tokens
      BY <2>1 DEF Opens
    <2>3. k \in Nat /\ s \in Nat
      BY <2>1, LinesApart
    <2>4. /\ kinds[k] # "blank"
          /\ kinds[k] = "goal" <=> Whole(s, "GoalKeyword")
          /\ kinds[k] = "capability" <=> Whole(s, "CapabilityKeyword")
          /\ kinds[k] = "check" <=> Whole(s, "CheckKeyword")
      BY <2>1, LineTells
    <2> HIDE DEF kinds
    <2>5. QED
      BY <2>1, <2>2, <2>3, <2>4 DEF LinesAs
  <1>5. ASSUME NEW j, NEW k, NEW s, NEW t, R(j, s), R(k, t)
        PROVE  /\ j = k <=> s = t
               /\ j < k <=> s < t
    <2>1. /\ j \in DOMAIN lines /\ k \in DOMAIN lines /\ s \in On(first, j) /\ t \in On(first, k)
          /\ Opens(s) /\ Opens(t)
      BY <1>5
    <2>2. j \in Nat /\ k \in Nat /\ s \in Nat /\ t \in Nat
      BY <1>4, <1>5
    <2>3. j = k <=> s = t
      BY <2>1, LineOpens, OnOneLine
    <2>4. (j < k => s < t) /\ (k < j => t < s)
      BY <2>1, LinesApart
    <2>5. QED
      BY <2>2, <2>3, <2>4
  <1>6. G \subseteq toks /\ N \subseteq toks /\ C \subseteq toks
    BY DEF LinesAs
  <1>7. goals \subseteq said /\ named \subseteq said /\ checked \subseteq said
    OBVIOUS
  <1>8. IsDocument(kinds) <=>
          /\ said = goals \cup named \cup checked
          /\ \E g \in goals : goals = {g} /\ \A i \in said : g <= i
          /\ named # {} /\ checked # {}
          /\ \A c \in named, k \in checked : c < k
    BY DEF IsDocument
  <1>9. WellFormed <=>
          /\ \A s \in toks : s \in G \cup N \cup C
          /\ \E g \in G : G = {g} /\ \A s \in toks : g <= s
          /\ N # {} /\ C # {}
          /\ \A c \in N, k \in C : c < k
    BY DEF WellFormed
  <1> HIDE DEF kinds, said, R, toks, G, N, C, goals, named, checked
  <1>10. said = goals \cup named \cup checked <=> \A s \in toks : s \in G \cup N \cup C
    BY <1>2, <1>3, <1>4, <1>7
  <1>11. (\E g \in goals : goals = {g} /\ \A i \in said : g <= i)
           <=> \E g \in G : G = {g} /\ \A s \in toks : g <= s
    <2>1. ASSUME NEW g \in goals, goals = {g}, \A i \in said : g <= i
          PROVE  \E h \in G : G = {h} /\ \A s \in toks : h <= s
      <3>1. PICK h : R(g, h)
        BY <1>2, <1>7
      <3>2. h \in G
        BY <1>4, <3>1
      <3>3. ASSUME NEW s \in G  PROVE s = h
        <4>1. PICK i : R(i, s)
          BY <1>3, <1>6
        <4>2. i = g
          BY <1>4, <2>1, <4>1
        <4>3. QED
          BY <1>5, <3>1, <4>1, <4>2
      <3>4. ASSUME NEW s \in toks  PROVE h <= s
        <4>1. PICK i : R(i, s)
          BY <1>3
        <4>2. g <= i /\ g \in Nat /\ i \in Nat /\ s \in Nat /\ h \in Nat
          BY <1>4, <2>1, <3>1, <4>1
        <4>3. (g = i <=> h = s) /\ (g < i <=> h < s)
          BY <1>5, <3>1, <4>1
        <4>4. QED
          BY <4>2, <4>3
      <3>5. QED
        BY <3>2, <3>3, <3>4
    <2>2. ASSUME NEW h \in G, G = {h}, \A s \in toks : h <= s
          PROVE  \E g \in goals : goals = {g} /\ \A i \in said : g <= i
      <3>1. PICK g : R(g, h)
        BY <1>3, <1>6
      <3>2. g \in goals
        BY <1>4, <3>1
      <3>3. ASSUME NEW i \in goals  PROVE i = g
        <4>1. PICK s : R(i, s)
          BY <1>2, <1>7
        <4>2. s = h
          BY <1>4, <2>2, <4>1
        <4>3. QED
          BY <1>5, <3>1, <4>1, <4>2
      <3>4. ASSUME NEW i \in said  PROVE g <= i
        <4>1. PICK s : R(i, s)
          BY <1>2
        <4>2. h <= s /\ g \in Nat /\ i \in Nat /\ s \in Nat /\ h \in Nat
          BY <1>4, <2>2, <3>1, <4>1
        <4>3. (g = i <=> h = s) /\ (g < i <=> h < s)
          BY <1>5, <3>1, <4>1
        <4>4. QED
          BY <4>2, <4>3
      <3>5. QED
        BY <3>2, <3>3, <3>4
    <2>3. QED
      BY <2>1, <2>2
  <1>12. (named # {} <=> N # {}) /\ (checked # {} <=> C # {})
    <2>1. (named # {} => N # {}) /\ (checked # {} => C # {})
      BY <1>2, <1>4, <1>7
    <2>2. (N # {} => named # {}) /\ (C # {} => checked # {})
      BY <1>3, <1>4, <1>6
    <2>3. QED
      BY <2>1, <2>2
  <1>13. (\A c \in named, k \in checked : c < k) <=> \A c \in N, k \in C : c < k
    <2>1. ASSUME \A c \in named, k \in checked : c < k, NEW c \in N, NEW k \in C
          PROVE  c < k
      <3>1. PICK i : R(i, c)
        BY <1>3, <1>6
      <3>2. PICK j : R(j, k)
        BY <1>3, <1>6
      <3>3. i < j
        BY <1>4, <2>1, <3>1, <3>2
      <3>4. QED
        BY <1>5, <3>1, <3>2, <3>3
    <2>2. ASSUME \A c \in N, k \in C : c < k, NEW c \in named, NEW k \in checked
          PROVE  c < k
      <3>1. PICK i : R(c, i)
        BY <1>2, <1>7
      <3>2. PICK j : R(k, j)
        BY <1>2, <1>7
      <3>3. i < j
        BY <1>4, <2>2, <3>1, <3>2
      <3>4. QED
        BY <1>5, <3>1, <3>2, <3>3
    <2>3. QED
      BY <2>1, <2>2
  <1>14. QED
    BY <1>8, <1>9, <1>10, <1>11, <1>12, <1>13 DEF kinds

\* What is parsed has been lexed without a complaint.
LEMMA ParsedIsLexed ==
  ASSUME LangIInv, phase = "done", section # "goal"
  PROVE  \E first : LexedInto(first)
  <1>1. LexInv /\ Clean
    BY DEF LangIInv, LangInv, IInv
  <1>2. Lexed /\ source \in Seq(Units) /\ LexedTo = Len(source) + 1
    BY <1>1, LexInvLexed DEF LexInv, LexedTo
  <1>3. \A i \in DOMAIN source : source[i] = "blank" \/ \E t \in DOMAIN tokens : Under(i, tokens[t])
    <2>1. \A i \in DOMAIN source : i < Len(source) + 1
      BY <1>2
    <2>2. Accounted(tokens, {}, Len(source) + 1)
      BY <1>1, <1>2 DEF Clean
    <2>3. QED
      BY <2>1, <2>2 DEF Accounted
  <1>4. PICK first : Layout(first)
    BY DEF LangIInv, LangInv
  <1>5. QED
    BY <1>1, <1>2, <1>3, <1>4 DEF Clean, LexedInto

\* No document has a wrong line.
LEMMA WrongIsNoDocument ==
  ASSUME lines \in Documents, NEW k \in DOMAIN lines, AcceptedKind(lines[k]) = "wrong"
  PROVE  ~IsDocument([i \in DOMAIN lines |-> KindOf[lines[i]]])
  <1> DEFINE kinds == [i \in DOMAIN lines |-> KindOf[lines[i]]]
  <1>1. k \in DOMAIN kinds /\ kinds[k] = "wrong"
    BY DEF KindOf, LineForms
  <1> HIDE DEF kinds
  <1>2. ~IsDocument(kinds)
    BY <1>1 DEF IsDocument
  <1>3. QED
    BY <1>2 DEF kinds

LEMMA LanguageAccepted == LangIInv => AcceptsItsLanguage
  <1> DEFINE Document == IsDocument([i \in DOMAIN lines |-> KindOf[lines[i]]])
  <1> SUFFICES ASSUME LangIInv, phase = "done"  PROVE ast # Null <=> Document
    BY DEF AcceptsItsLanguage
  <1>1. ast # Null <=> diagnostics = {}
    BY DEF LangIInv, IInv, ParseInv, NoSilentFailure
  <1>2. CASE section = "goal"
    <2>1. diagnostics # {}
      BY <1>2 DEF LangIInv, IInv, ParseInv
    <2>2. PICK k \in DOMAIN lines : AcceptedKind(lines[k]) = "wrong"
      BY <1>2, <2>1 DEF LangIInv, LangInv
    <2>3. lines \in Documents
      BY DEF LangIInv, LangInv, Layout
    <2>4. QED
      BY <1>1, <2>1, <2>2, <2>3, WrongIsNoDocument
  <1>3. CASE section # "goal"
    <2>1. Document <=> WellFormed
      BY <1>3, ParsedIsLexed, DocumentTells
    <2>2. FormInv
      BY DEF LangIInv
    <2>3. CASE diagnostics # {}
      BY <1>1, <1>3, <2>1, <2>2, <2>3 DEF FormInv
    <2>4. CASE diagnostics = {}
      <3>1. /\ Accepted /\ capabilities # {} /\ checks # {}
            /\ \A s \in DOMAIN tokens : Opens(s) => s < index
        BY <1>3, <2>2, <2>4 DEF FormInv
      <3>2. \A s \in DOMAIN tokens : Opens(s) => s \in {goal} \cup capabilities \cup checks
        BY <3>1 DEF Accepted
      <3> DEFINE G == LinesAs("GoalKeyword")
                 N == LinesAs("CapabilityKeyword")
                 C == LinesAs("CheckKeyword")
      <3>3. /\ goal \in G /\ capabilities \subseteq N /\ checks \subseteq C
            /\ \A s \in capabilities \cup checks : goal < s
            /\ \A c \in capabilities, k \in checks : c < k
        BY <3>1 DEF Accepted
      <3>4. /\ \A s \in G : s \in DOMAIN tokens /\ Opens(s) /\ Kind(s) = "GoalKeyword"
            /\ \A s \in N : s \in DOMAIN tokens /\ Opens(s) /\ Kind(s) = "CapabilityKeyword"
            /\ \A s \in C : s \in DOMAIN tokens /\ Opens(s) /\ Kind(s) = "CheckKeyword"
        BY DEF LinesAs, Whole
      <3>5. DOMAIN tokens \subseteq Nat
        BY <1>3, ParsedIsLexed DEF LexedInto, Lexed
      <3> HIDE DEF G, N, C
      <3>6. G = {goal} /\ N = capabilities /\ C = checks
        BY <3>2, <3>3, <3>4
      <3>7. \A s \in DOMAIN tokens : Opens(s) => s \in G \cup N \cup C
        BY <3>2, <3>6
      <3>8. \A s \in DOMAIN tokens : Opens(s) => goal <= s
        <4>1. ASSUME NEW s \in DOMAIN tokens, Opens(s)  PROVE goal <= s
          <5>1. s = goal \/ goal < s
            BY <3>2, <3>3, <4>1
          <5>2. s \in Nat /\ goal \in Nat
            BY <3>3, <3>4, <3>5
          <5>3. QED
            BY <5>1, <5>2
        <4>2. QED
          BY <4>1
      <3>9. WellFormed
        BY <3>1, <3>3, <3>6, <3>7, <3>8 DEF WellFormed, G, N, C
      <3>10. QED
        BY <1>1, <2>1, <2>4, <3>9
    <2>5. QED
      BY <2>3, <2>4
  <1>4. QED
    BY <1>2, <1>3

\* Whatever the documents: the lexer and the parser (compiler/src/lexer.ts, parser.ts)
\* give a syntax tree to those whose lines are each one the parser takes, in the order
\* goal, capabilities, checks, and to no others.
THEOREM ExactlyTheLanguage == Spec => []AcceptsItsLanguage
  BY SpecLangIInv, LanguageAccepted, PTL
=============================================================================
