-------------------------- MODULE TelemetryProofs --------------------------
(* What an append does to the lines of a file, and the count of the records  *)
(* that were taken for written and cannot be read.                           *)
EXTENDS Telemetry, TLAPS, FiniteSetTheorems

\* A file has finitely many lines, so finitely many that cannot be read.
LEMMA UnreadableIsFinite ==
  ASSUME NEW E, NEW log \in LogOf(E)
  PROVE  IsFiniteSet(DOMAIN log.lines \ Readable(log))
  <1>1. DOMAIN log.lines = 1..Len(log.lines) /\ Len(log.lines) \in Nat
    BY DEF LogOf
  <1>2. IsFiniteSet(DOMAIN log.lines)
    BY <1>1, FS_Interval
  <1>3. QED
    BY <1>2, FS_Subset

\* Lines stay where they are, readable or not, whatever is appended; an append that
\* is done adds the entry or garbage.
LEMMA LinesStay ==
  ASSUME NEW E, NEW log \in LogOf(E), NEW entry, NEW new \in FailedAppends(log, entry)
  PROVE  /\ \A i \in Readable(log) : i \in Readable(new) /\ new.lines[i] = log.lines[i]
         /\ DOMAIN log.lines \ Readable(log) \subseteq DOMAIN new.lines \ Readable(new)
         /\ IsFiniteSet(DOMAIN new.lines \ Readable(new))
         /\ new = Appended(log, entry) =>
              \/ \E i \in Readable(new) : new.lines[i] = entry
              \/ \E i : /\ i \notin DOMAIN log.lines \ Readable(log)
                        /\ DOMAIN new.lines \ Readable(new) =
                             (DOMAIN log.lines \ Readable(log)) \cup {i}
  <1>1. /\ log.lines \in Seq(E \cup {Garbled}) /\ Len(log.lines) \in Nat
        /\ DOMAIN log.lines = 1..Len(log.lines)
    BY DEF LogOf
  <1>2. \A l : Readable(l) \subseteq DOMAIN l.lines
    BY DEF Readable
  <1>3. IsFiniteSet(DOMAIN log.lines)
    BY <1>1, FS_Interval
  <1>4. CASE new # Appended(log, entry)
    <2>1. new.lines = log.lines
      BY <1>1, <1>4 DEF FailedAppends, LogOf
    <2>2. Readable(new) = Readable(log)
      BY <2>1 DEF Readable
    <2>3. QED
      BY <1>2, <1>3, <1>4, <2>1, <2>2, FS_Subset
  <1>5. CASE new = Appended(log, entry)
    <2> DEFINE line == IF log.torn THEN Garbled ELSE entry
               n == Len(log.lines) + 1
    <2>1. new.lines = Append(log.lines, line)
      BY <1>5 DEF Appended
    <2>2. line = Garbled \/ line = entry
      OBVIOUS
    <2> HIDE DEF line
    <2>3. /\ DOMAIN new.lines = DOMAIN log.lines \cup {n} /\ n \notin DOMAIN log.lines
          /\ \A i \in DOMAIN log.lines : new.lines[i] = log.lines[i]
          /\ new.lines[n] = line
      BY <1>1, <2>1
    <2> HIDE DEF n
    <2>4. \A i \in DOMAIN log.lines : i \in Readable(new) <=> i \in Readable(log)
      BY <2>3 DEF Readable
    <2>5. IsFiniteSet(DOMAIN new.lines)
      BY <1>3, <2>3, FS_AddElement
    <2>6. CASE line = Garbled
      <3>1. n \notin Readable(new)
        BY <2>3, <2>6 DEF Readable
      <3>2. DOMAIN new.lines \ Readable(new) = (DOMAIN log.lines \ Readable(log)) \cup {n}
        BY <1>2, <2>3, <2>4, <3>1
      <3>3. QED
        BY <1>2, <2>3, <2>4, <2>5, <3>2, FS_Subset
    <2>7. CASE line # Garbled
      <3>1. n \in Readable(new) /\ new.lines[n] = entry
        BY <2>2, <2>3, <2>7 DEF Readable
      <3>2. QED
        BY <1>2, <2>3, <2>4, <2>5, <3>1, FS_Subset
    <2>8. QED
      BY <2>6, <2>7
  <1>6. QED
    BY <1>4, <1>5

\* No more are lost than there is garbage, where none more is lost, or one for one
\* more line of garbage.
LEMMA LostCounted ==
  ASSUME NEW L, NEW G, NEW M, NEW H, IsFiniteSet(L), IsFiniteSet(H), G \subseteq H,
         Cardinality(L) <= Cardinality(G),
         \/ M \subseteq L
         \/ \E x, i : M \subseteq L \cup {x} /\ i \notin G /\ H = G \cup {i}
  PROVE  IsFiniteSet(M) /\ Cardinality(M) <= Cardinality(H)
  <1>1. /\ IsFiniteSet(G) /\ Cardinality(G) <= Cardinality(H)
        /\ Cardinality(G) \in Nat /\ Cardinality(H) \in Nat /\ Cardinality(L) \in Nat
    BY FS_Subset, FS_CardinalityType
  <1>2. CASE M \subseteq L
    <2>1. IsFiniteSet(M) /\ Cardinality(M) <= Cardinality(L) /\ Cardinality(M) \in Nat
      BY <1>2, FS_Subset, FS_CardinalityType
    <2>2. QED
      BY <1>1, <2>1
  <1>3. ASSUME NEW x, NEW i, M \subseteq L \cup {x}, i \notin G, H = G \cup {i}
        PROVE  IsFiniteSet(M) /\ Cardinality(M) <= Cardinality(H)
    <2>1. Cardinality(H) = Cardinality(G) + 1
      BY <1>1, <1>3, FS_AddElement
    <2>2. /\ IsFiniteSet(L \cup {x}) /\ Cardinality(L \cup {x}) <= Cardinality(L) + 1
          /\ Cardinality(L \cup {x}) \in Nat
      <3>1. /\ IsFiniteSet(L \cup {x})
            /\ \/ Cardinality(L \cup {x}) = Cardinality(L)
               \/ Cardinality(L \cup {x}) = Cardinality(L) + 1
        BY FS_AddElement
      <3>2. QED
        BY <1>1, <3>1
    <2>3. IsFiniteSet(M) /\ Cardinality(M) <= Cardinality(L \cup {x}) /\ Cardinality(M) \in Nat
      BY <1>3, <2>2, FS_Subset, FS_CardinalityType
    <2>4. QED
      BY <1>1, <2>1, <2>2, <2>3
  <1>4. QED
    BY <1>2, <1>3
=============================================================================
