-------------------------- MODULE RepairLoopProofs --------------------------
(* Theorems about RepairLoop, for every value of its constants.              *)
EXTENDS RepairLoop, TelemetryProofs

-----------------------------------------------------------------------------
(* The rule table.                                                           *)

LEMMA TwelveRules == RuleIndices = 1..12
  BY DEF RuleIndices, REPAIR_RULES

\* A non-empty set of rules has a first one.
LEMMA SmallestRule ==
  ASSUME NEW S \in SUBSET (1..12), S # {}
  PROVE  \E m \in S : \A k \in S : m <= k
  <1>1. SUFFICES ASSUME \A m \in S : \E k \in S : k < m
                 PROVE  FALSE
    OBVIOUS
  <1>2. 1 \notin S /\ 2 \notin S
    BY <1>1
  <1>3. 3 \notin S /\ 4 \notin S
    BY <1>1, <1>2
  <1>4. 5 \notin S /\ 6 \notin S
    BY <1>1, <1>2, <1>3
  <1>5. 7 \notin S /\ 8 \notin S
    BY <1>1, <1>2, <1>3, <1>4
  <1>6. 9 \notin S /\ 10 \notin S
    BY <1>1, <1>2, <1>3, <1>4, <1>5
  <1>7. 11 \notin S /\ 12 \notin S
    BY <1>1, <1>2, <1>3, <1>4, <1>5, <1>6
  <1>8. PICK m \in S : m \in 1..12
    OBVIOUS
  <1>9. QED
    BY <1>2, <1>3, <1>4, <1>5, <1>6, <1>7, <1>8

\* Where a rule matches, the loop applies the first one in REPAIR_RULES.
LEMMA FirstMatches ==
  ASSUME NEW f, Matching(f) # {}
  PROVE  /\ FirstMatching(f) \in Matching(f)
         /\ FirstMatching(f) \in RuleIndices
         /\ \A j \in Matching(f) : FirstMatching(f) <= j
  <1>1. Matching(f) \in SUBSET (1..12)
    BY TwelveRules DEF Matching
  <1>2. \E i \in Matching(f) : \A j \in Matching(f) : i <= j
    BY <1>1, SmallestRule
  <1>3. FirstMatching(f) \in Matching(f) /\ \A j \in Matching(f) : FirstMatching(f) <= j
    BY <1>2 DEF FirstMatching
  <1>4. QED
    BY <1>3 DEF Matching

\* Whatever a rule is applied to, its outcome is one of the four.
LEMMA ApplyType ==
  ASSUME NEW i, NEW f, NEW n
  PROVE  Apply(i, f, n) \in Outcomes
  BY DEF Apply, Outcomes

\* The first attempt apart, a rule does the same in every attempt.
LEMMA RulesSettle ==
  ASSUME NEW i, NEW f, NEW m \in Nat, NEW n \in Nat, m >= 2, n >= 2
  PROVE  Apply(i, f, m) = Apply(i, f, n)
  BY DEF Apply, AsksAgain

\* normalizeMaxAttempts gives a limit from one to the hard cap.
LEMMA LimitType ==
  ASSUME NEW o \in OptionType
  PROVE  Limit(o) \in 1..ABSOLUTE_MAX_ATTEMPTS
  BY DEF OptionType, Limit, DEFAULT_MAX_ATTEMPTS, ABSOLUTE_MAX_ATTEMPTS

-----------------------------------------------------------------------------
(* The verdict of a failure and a limit.                                     *)

LEMMA SettlesAtTwo ==
  ASSUME NEW f, NEW limit \in Nat \ {0}, Settling(f, limit) # {}
  PROVE  /\ FirstSettling(f, limit) \in Settling(f, limit)
         /\ \A k \in Settling(f, limit) : FirstSettling(f, limit) <= k
  <1>1. \E n \in Settling(f, limit) : \A k \in Settling(f, limit) : n <= k
    <2>1. CASE OutcomeAt(f, 1) # "retry"
      BY <2>1 DEF Settling
    <2>2. CASE OutcomeAt(f, 1) = "retry"
      <3>1. PICK n \in Settling(f, limit) : n >= 2
        BY <2>2 DEF Settling
      <3>2. OutcomeAt(f, 2) = OutcomeAt(f, n)
        BY <3>1, RulesSettle DEF OutcomeAt, Settling
      <3>3. 2 \in Settling(f, limit)
        BY <3>1, <3>2 DEF Settling
      <3>4. QED
        BY <2>2, <3>3 DEF Settling
    <2>3. QED
      BY <2>1, <2>2
  <1>2. QED
    BY <1>1 DEF FirstSettling

\* A larger limit never changes what a smaller one has settled: only failures
\* that are stopped for want of attempts may do better.
THEOREM MoreAttemptsKeepTheVerdict ==
  ASSUME NEW f, NEW m \in Nat \ {0}, NEW n \in Nat \ {0}, m <= n,
         Matching(f) # {} => Settling(f, m) # {}
  PROVE  /\ Decision(f, n) = Decision(f, m)
         /\ Attempts(f, n) = Attempts(f, m)
  <1>1. CASE Matching(f) = {}
    BY <1>1 DEF Decision, Attempts
  <1>2. CASE Matching(f) # {}
    <2>1. Settling(f, m) \subseteq Settling(f, n)
      BY DEF Settling
    <2>2. Settling(f, n) # {}
      BY <1>2, <2>1
    <2>3. \A k \in Settling(f, n) : k <= m => k \in Settling(f, m)
      BY DEF Settling
    <2>4. /\ FirstSettling(f, m) \in 1..m
          /\ FirstSettling(f, n) \in 1..n
      BY <1>2, <2>2, SettlesAtTwo DEF Settling
    <2>5. FirstSettling(f, n) = FirstSettling(f, m)
      BY <1>2, <2>1, <2>2, <2>3, <2>4, SettlesAtTwo
    <2>6. QED
      BY <1>2, <2>2, <2>5 DEF Decision, Attempts
  <1>3. QED
    BY <1>1, <1>2

-----------------------------------------------------------------------------
(* Results are verdicts.                                                     *)

\* The attempts behind a call asked for another, and are its history.
Attempting(c) ==
  call[c] # Idle /\ call[c].phase = "attempt" =>
    /\ call[c].result = Null
    /\ call[c].attempt > 1 => Matched(c)
    /\ \A n \in 1..(call[c].attempt - 1) : OutcomeAt(call[c].failure, n) = "retry"
    /\ call[c].history = HistoryOf(call[c].failure, call[c].attempt - 1)

Concluded(c) ==
  call[c] # Idle /\ call[c].phase # "attempt" => call[c].result # Null

VerdictInv ==
  /\ TypeOK
  /\ \A c \in Callers : Attempting(c) /\ Concluded(c)
  /\ ResultIsVerdict

\* Before the first attempt the history is empty.
LEMMA NoHistory ==
  ASSUME NEW f
  PROVE  HistoryOf(f, 0) = <<>>
  BY DEF HistoryOf

\* An attempt's record appended to the history of the attempts before it is the
\* history of both.
LEMMA HistoryGrows ==
  ASSUME NEW f, NEW n \in Nat \ {0}, Matching(f) # {}
  PROVE  Append(HistoryOf(f, n - 1),
                [attempt |-> n, rule |-> FirstMatching(f), outcome |-> OutcomeAt(f, n)])
         = HistoryOf(f, n)
  <1> DEFINE R(k) == [attempt |-> k, rule |-> FirstMatching(f), outcome |-> OutcomeAt(f, k)]
  <1>1. \A m \in Nat : HistoryOf(f, m) = [k \in 1..m |-> R(k)]
    BY DEF HistoryOf
  <1> HIDE DEF R
  <1>2. Append([k \in 1..(n - 1) |-> R(k)], R(n)) = [k \in 1..n |-> R(k)]
    OBVIOUS
  <1>3. QED
    BY <1>1, <1>2 DEF R

\* A call has a failure and options of their types, and is within its limit.
LEMMA CallType ==
  ASSUME TypeOK, NEW c \in Callers, call[c] # Idle
  PROVE  /\ call[c] \in Calls
         /\ call[c].failure \in FailureType
         /\ call[c].options \in OptionType
         /\ call[c].attempt \in 1..Limit(call[c].options)
         /\ Limit(call[c].options) \in 1..ABSOLUTE_MAX_ATTEMPTS
  <1>1. call[c] \in Calls
    BY DEF TypeOK
  <1>2. call[c].failure \in FailureType /\ call[c].options \in OptionType
    BY <1>1 DEF Calls
  <1>3. call[c].attempt <= Limit(call[c].options) /\ call[c].attempt \in 1..ABSOLUTE_MAX_ATTEMPTS
    BY <1>1 DEF TypeOK, Calls
  <1>4. QED
    BY <1>1, <1>2, <1>3, LimitType DEF ABSOLUTE_MAX_ATTEMPTS

\* What history.push leaves is a history.
LEMMA RecordedType ==
  ASSUME TypeOK, NEW c \in Callers, call[c] # Idle, Matched(c)
  PROVE  Recorded(c) \in Seq(Records)
  <1>1. call[c] \in Calls
    BY CallType
  <1>2. [attempt |-> call[c].attempt, rule |-> FirstMatching(call[c].failure),
         outcome |-> Outcome(c)] \in Records
    BY <1>1, FirstMatches, ApplyType DEF Records, Calls, Matched, Outcome
  <1>3. call[c].history \in Seq(Records)
    BY <1>1 DEF Calls
  <1>4. QED
    BY <1>2, <1>3 DEF Recorded, RecordOf

\* What Conclude makes of a call is a result, and the verdict.
LEMMA FinalIsVerdict ==
  ASSUME VerdictInv, NEW c \in Callers, InPhase(c, "attempt"),
         Matched(c) /\ Outcome(c) = "retry" => Exhausted(c)
  PROVE  FinalResult(c) \in Results /\ Explained(FinalResult(c))
  <1> DEFINE f == call[c].failure
             a == call[c].attempt
             limit == Limit(call[c].options)
  <1>1. /\ call[c] \in Calls
        /\ f \in FailureType
        /\ a \in 1..limit
        /\ limit \in 1..ABSOLUTE_MAX_ATTEMPTS
        /\ a \in 1..ABSOLUTE_MAX_ATTEMPTS
    BY CallType DEF VerdictInv, InPhase, ABSOLUTE_MAX_ATTEMPTS
  <1>2. /\ a > 1 => Matching(f) # {}
        /\ \A n \in 1..(a - 1) : OutcomeAt(f, n) = "retry"
        /\ call[c].history = HistoryOf(f, a - 1)
    BY DEF VerdictInv, Attempting, InPhase, Matched
  <1>3. call[c].history \in Seq(Records)
    BY <1>1 DEF Calls
  <1>4. CASE ~Matched(c)
    <2>1. a = 1 /\ Matching(f) = {}
      BY <1>1, <1>2, <1>4 DEF Matched
    <2>2. call[c].history = <<>>
      BY <1>2, <2>1, NoHistory
    <2>3. FinalResult(c) = ResultOf(c, "escalate", "NO_SAFE_DETERMINISTIC_REPAIR", Null, <<>>)
      BY <1>4, <2>2 DEF FinalResult
    <2>4. QED
      BY <1>1, <1>3, <2>1, <2>2, <2>3
         DEF ResultOf, Results, Decisions, Reasons, Explained, Decision, Attempts, HistoryOf
  <1>5. CASE Matched(c)
    <2>1. /\ Outcome(c) = OutcomeAt(f, a)
          /\ Outcome(c) \in Outcomes
          /\ FirstMatching(f) \in RuleIndices
          /\ Recorded(c) \in Seq(Records)
      BY <1>5, ApplyType, FirstMatches, RecordedType
         DEF Outcome, OutcomeAt, Matched, VerdictInv, InPhase
    <2>2. Recorded(c) = HistoryOf(f, a)
      BY <1>1, <1>2, <1>5, <2>1, HistoryGrows DEF Recorded, RecordOf, Matched
    <2>3. CASE Outcome(c) = "retry"
      <3>1. a = limit
        BY <1>5, <2>3 DEF Exhausted
      <3>2. Settling(f, limit) = {}
        <4>1. SUFFICES ASSUME NEW n \in 1..limit
                       PROVE  OutcomeAt(f, n) = "retry"
          BY DEF Settling
        <4>2. n = a \/ n \in 1..(a - 1)
          BY <1>1, <3>1 DEF ABSOLUTE_MAX_ATTEMPTS
        <4>3. QED
          BY <1>2, <2>1, <2>3, <4>2
      <3>3. FinalResult(c) = ResultOf(c, "stop", "MAX_ATTEMPTS_EXCEEDED",
                                      FirstMatching(f), Recorded(c))
        BY <1>5, <2>3 DEF FinalResult
      <3>4. FinalResult(c) \in Results
        BY <1>1, <2>1, <3>3 DEF ResultOf, Results, Decisions, Reasons
      <3>5. Decision(f, limit) = "stop" /\ Attempts(f, limit) = limit
        BY <1>5, <3>2 DEF Decision, Attempts, Matched
      <3>6. QED
        BY <2>2, <3>1, <3>3, <3>4, <3>5 DEF ResultOf, Explained
    <2>4. CASE Outcome(c) # "retry"
      <3>1. a \in Settling(f, limit) /\ \A n \in Settling(f, limit) : a <= n
        BY <1>1, <1>2, <2>1, <2>4 DEF Settling
      <3>2. FirstSettling(f, limit) = a
        <4>1. /\ FirstSettling(f, limit) \in Settling(f, limit)
              /\ \A k \in Settling(f, limit) : FirstSettling(f, limit) <= k
          BY <1>1, <3>1, SettlesAtTwo DEF ABSOLUTE_MAX_ATTEMPTS
        <4>2. QED
          BY <3>1, <4>1, <1>1 DEF Settling
      <3>3. FinalResult(c) = ResultOf(c, Outcome(c), "of_the_rule",
                                      FirstMatching(f), Recorded(c))
        BY <1>5, <2>4 DEF FinalResult
      <3>4. FinalResult(c) \in Results
        BY <1>1, <2>1, <2>4, <3>3 DEF ResultOf, Results, Decisions, Reasons, Outcomes
      <3>5. QED
        BY <1>5, <2>1, <2>2, <3>1, <3>2, <3>3, <3>4
           DEF ResultOf, Explained, Decision, Attempts, Matched
    <2>5. QED
      BY <2>3, <2>4
  <1>6. QED
    BY <1>4, <1>5

-----------------------------------------------------------------------------
(* Files.                                                                    *)

\* An append leaves the finished lines as they are, and finishes at most one
\* more: the entry, or garbage.
Extends(log, entry, new) ==
  \A i \in DOMAIN new.lines :
    \/ i \in DOMAIN log.lines /\ new.lines[i] = log.lines[i]
    \/ i = Len(log.lines) + 1 /\ new.lines[i] \in {entry, Garbled}

\* An append, failed or not, keeps a file's type and only extends it.
LEMMA AppendsExtend ==
  ASSUME NEW E, NEW log \in LogOf(E), NEW entry \in E,
         NEW new \in FailedAppends(log, entry)
  PROVE  new \in LogOf(E) /\ Extends(log, entry, new)
  <1>1. log.lines \in Seq(E \cup {Garbled}) /\ log.torn \in BOOLEAN
    BY DEF LogOf
  <1>2. CASE new = log
    BY <1>2 DEF Extends
  <1>3. CASE new = [log EXCEPT !.torn = TRUE]
    BY <1>1, <1>3 DEF Extends, LogOf
  <1>4. CASE new = Appended(log, entry)
    <2> DEFINE line == IF log.torn THEN Garbled ELSE entry
    <2>1. line \in E \cup {Garbled} /\ line \in {entry, Garbled}
      OBVIOUS
    <2> HIDE DEF line
    <2>2. new = [lines |-> Append(log.lines, line), torn |-> FALSE]
      BY <1>4 DEF Appended, line
    <2>3. /\ Append(log.lines, line) \in Seq(E \cup {Garbled})
          /\ DOMAIN Append(log.lines, line) = 1..(Len(log.lines) + 1)
          /\ DOMAIN log.lines = 1..Len(log.lines) /\ Len(log.lines) \in Nat
          /\ \A i \in 1..Len(log.lines) : Append(log.lines, line)[i] = log.lines[i]
          /\ Append(log.lines, line)[Len(log.lines) + 1] = line
      BY <1>1, <2>1
    <2>4. QED
      BY <2>1, <2>2, <2>3 DEF Extends, LogOf
  <1>5. QED
    BY <1>2, <1>3, <1>4 DEF FailedAppends

\* An append that succeeded is among the outcomes of one that failed.
LEMMA WrittenIsAnAppend ==
  ASSUME NEW log, NEW entry
  PROVE  Appended(log, entry) \in FailedAppends(log, entry)
  BY DEF FailedAppends

-----------------------------------------------------------------------------
(* The verdicts' invariant is inductive.                                     *)

LEMMA EntryType ==
  ASSUME VerdictInv, NEW c \in Callers, NEW s \in Sinks, InPhase(c, s)
  PROVE  EntryFor(c, s) \in EntriesOf(s)
  <1>1. call[c] \in Calls /\ call[c].options \in OptionType
    BY CallType DEF VerdictInv, InPhase
  <1>2. call[c].result \in Results
    BY <1>1 DEF VerdictInv, Concluded, InPhase, Sinks, Calls
  <1>3. QED
    BY <1>1, <1>2
       DEF EntryFor, EntriesOf, FeedbackEntries, InspectionEntries, ActionOf, Calls,
           Results, OptionType

\* After the attempts a call only emits and returns.
LEMMA PhasesFollow ==
  ASSUME NEW o, NEW s \in Sinks
  PROVE  /\ After(s, o) \in Phases \ {"attempt"}
         /\ AfterAttempts(o) \in Phases \ {"attempt"}
  BY DEF After, AfterAttempts, AfterFeedback, AfterInspection, Phases, Sinks

\* The verdicts' invariant holds at first.
LEMMA InitVerdict == Init => VerdictInv
  <1>1. EmptyLog \in [lines : Seq({}), torn : BOOLEAN]
    BY DEF EmptyLog
  <1>2. QED
    BY DEF Init, VerdictInv, TypeOK, Attempting, Concluded, ResultIsVerdict, EmptyLog,
           LogOf, Idle

\* What a step of one caller does to it is all that has to be shown.
LEMMA OneCallChanges ==
  ASSUME VerdictInv, NEW c \in Callers, NEW new,
         call' = [call EXCEPT ![c] = new], (sink = [s \in Sinks |-> sink[s]])',
         \A s \in Sinks : sink'[s] \in LogOf(EntriesOf(s)),
         calls' \in Nat, returned' \subseteq [id : Nat, result : Results],
         \A r \in returned' : Explained(r.result),
         new # Idle =>
           /\ new \in Calls /\ new.attempt <= Limit(new.options)
           /\ new.result # Null => Explained(new.result),
         Attempting(c)', Concluded(c)'
  PROVE  VerdictInv'
  <1>1. /\ call'[c] = new
        /\ \A d \in Callers \ {c} : call'[d] = call[d]
        /\ call' \in [Callers -> Calls \cup {Idle}]
    BY DEF VerdictInv, TypeOK
  <1>2. TypeOK'
    BY <1>1 DEF VerdictInv, TypeOK
  <1>3. \A d \in Callers : Attempting(d)' /\ Concluded(d)'
    BY <1>1 DEF VerdictInv, Attempting, Concluded, Matched
  <1>4. ResultIsVerdict'
    BY <1>1 DEF VerdictInv, ResultIsVerdict
  <1>5. QED
    BY <1>2, <1>3, <1>4 DEF VerdictInv

\* A call that begins has no history and no result.
LEMMA BeginKeepsVerdicts ==
  ASSUME VerdictInv, NEW c \in Callers, Begin(c)
  PROVE  VerdictInv'
  <1>1. PICK i \in Inputs[c] :
          call' = [call EXCEPT ![c] =
                     [phase |-> "attempt", id |-> calls', failure |-> i.failure,
                      options |-> i.options, attempt |-> 1, history |-> <<>>,
                      result |-> Null, emitted |-> FALSE, feedbackId |-> Null]]
    BY DEF Begin
  <1> DEFINE new == [phase |-> "attempt", id |-> calls', failure |-> i.failure,
                     options |-> i.options, attempt |-> 1, history |-> <<>>,
                     result |-> Null, emitted |-> FALSE, feedbackId |-> Null]
  <1>2. calls' \in Nat /\ UNCHANGED <<sink, returned>>
    BY DEF Begin, VerdictInv, TypeOK
  <1>3. /\ i.failure \in FailureType /\ i.options \in OptionType
        /\ Limit(i.options) \in 1..ABSOLUTE_MAX_ATTEMPTS
    <2>1. i.failure \in FailureType /\ i.options \in OptionType
      BY InputAssumption
    <2>2. QED
      BY <2>1, LimitType
  <1>4. new \in Calls /\ new.attempt <= Limit(new.options) /\ new # Idle
    <2>1. new \in Calls
      BY <1>2, <1>3 DEF Calls, Phases, ABSOLUTE_MAX_ATTEMPTS
    <2>2. new.attempt <= Limit(new.options)
      BY <1>3 DEF ABSOLUTE_MAX_ATTEMPTS
    <2> HIDE DEF new
    <2>3. QED
      BY <2>1, <2>2, NullAssumption DEF Idle
  <1>5. call'[c] = new
    BY <1>1 DEF VerdictInv, TypeOK
  <1>6. Attempting(c)' /\ Concluded(c)'
    BY <1>5, NoHistory DEF Attempting, Concluded
  <1>7. QED
    BY <1>1, <1>2, <1>4, <1>6, OneCallChanges DEF VerdictInv, TypeOK, ResultIsVerdict

\* A retry records its attempt, and none before it has settled.
LEMMA RetryKeepsVerdicts ==
  ASSUME VerdictInv, NEW c \in Callers, Retry(c)
  PROVE  VerdictInv' /\ call'[c] \in Calls
  <1> DEFINE f == call[c].failure
             a == call[c].attempt
             new == [call[c] EXCEPT !.attempt = a + 1, !.history = Recorded(c)]
  <1>1. /\ call[c] \in Calls /\ call[c] # Idle /\ call[c].phase = "attempt"
        /\ a \in 1..Limit(call[c].options)
        /\ Limit(call[c].options) \in 1..ABSOLUTE_MAX_ATTEMPTS
        /\ a # Limit(call[c].options)
    BY CallType DEF Retry, InPhase, VerdictInv, Exhausted
  <1>2. Matched(c) /\ Outcome(c) = "retry"
    BY DEF Retry
  <1>3. Recorded(c) \in Seq(Records)
    BY <1>1, <1>2, RecordedType DEF VerdictInv
  <1>4. call' = [call EXCEPT ![c] = new] /\ UNCHANGED <<sink, calls, returned>>
    BY DEF Retry, VerdictInv, TypeOK
  <1>5. /\ new \in Calls /\ new.attempt <= Limit(new.options)
        /\ new.result = Null /\ new.phase = "attempt" /\ new.failure = f
        /\ new.attempt = a + 1 /\ new.history = Recorded(c) /\ new # Idle
    <2>1. a + 1 \in 1..ABSOLUTE_MAX_ATTEMPTS /\ a + 1 <= Limit(call[c].options)
      BY <1>1 DEF ABSOLUTE_MAX_ATTEMPTS
    <2>2. new \in Calls /\ new.options = call[c].options
      BY <1>1, <1>3, <2>1 DEF Calls
    <2>3. call[c].result = Null
      BY <1>1 DEF VerdictInv, Attempting
    <2>4. new # Idle
      BY <2>2, NullAssumption DEF Idle
    <2>5. QED
      BY <1>1, <2>1, <2>2, <2>3, <2>4 DEF Calls
  <1>6. call'[c] = new
    BY <1>4 DEF VerdictInv, TypeOK
  <1>7. Recorded(c) = HistoryOf(f, a)
    <2>1. a \in Nat \ {0} /\ Matching(f) # {} /\ Outcome(c) = OutcomeAt(f, a)
      BY <1>1, <1>2 DEF Matched, Outcome, OutcomeAt, ABSOLUTE_MAX_ATTEMPTS
    <2>2. call[c].history = HistoryOf(f, a - 1)
      BY <1>1 DEF VerdictInv, Attempting
    <2>3. QED
      BY <2>1, <2>2, HistoryGrows DEF Recorded, RecordOf
  <1>8. \A n \in 1..a : OutcomeAt(f, n) = "retry"
    <2>1. \A n \in 1..(a - 1) : OutcomeAt(f, n) = "retry"
      BY <1>1 DEF VerdictInv, Attempting
    <2>2. OutcomeAt(f, a) = "retry"
      BY <1>2 DEF Outcome, OutcomeAt
    <2>3. a \in Nat /\ \A n \in 1..a : n = a \/ n \in 1..(a - 1)
      BY <1>1 DEF ABSOLUTE_MAX_ATTEMPTS
    <2>4. QED
      BY <2>1, <2>2, <2>3
  <1>9. (a + 1) - 1 = a
    BY <1>1 DEF ABSOLUTE_MAX_ATTEMPTS
  <1>10. Attempting(c)' /\ Concluded(c)'
    <2>1. Matching(f) # {}
      BY <1>2 DEF Matched
    <2>2. QED
      BY <1>5, <1>6, <1>7, <1>8, <1>9, <2>1 DEF Attempting, Concluded, Matched
  <1>11. QED
    BY <1>4, <1>5, <1>10, <1>6, OneCallChanges DEF VerdictInv, TypeOK, ResultIsVerdict

\* The result a call concludes with is the verdict.
LEMMA ConcludeKeepsVerdicts ==
  ASSUME VerdictInv, NEW c \in Callers, Conclude(c)
  PROVE  VerdictInv' /\ call'[c] \in Calls
  <1> DEFINE new == [call[c] EXCEPT !.phase = AfterAttempts(call[c].options),
                                    !.result = FinalResult(c)]
  <1>1. call[c] \in Calls /\ call[c] # Idle
        /\ call[c].attempt <= Limit(call[c].options)
    BY DEF Conclude, InPhase, VerdictInv, TypeOK
  <1>2. FinalResult(c) \in Results /\ Explained(FinalResult(c))
    BY FinalIsVerdict DEF Conclude
  <1>3. AfterAttempts(call[c].options) \in Phases \ {"attempt"}
    BY PhasesFollow DEF Sinks
  <1>4. call' = [call EXCEPT ![c] = new] /\ UNCHANGED <<sink, calls, returned>>
    BY DEF Conclude, VerdictInv, TypeOK
  <1>5. /\ new \in Calls /\ new.attempt <= Limit(new.options)
        /\ new.result = FinalResult(c) /\ new.phase # "attempt"
    BY <1>1, <1>2, <1>3 DEF Calls
  <1>6. call'[c] = new
    BY <1>4 DEF VerdictInv, TypeOK
  <1>7. Attempting(c)' /\ Concluded(c)'
    BY <1>2, <1>5, <1>6, NullAssumption DEF Attempting, Concluded
  <1>8. QED
    BY <1>2, <1>4, <1>5, <1>7, <1>6, OneCallChanges DEF VerdictInv, TypeOK, ResultIsVerdict

\* The files after an append by a caller, written or not.
LEMMA SinksKeepType ==
  ASSUME VerdictInv, NEW c \in Callers, NEW s \in Sinks, InPhase(c, s),
         NEW log \in FailedAppends(sink[s], EntryFor(c, s)),
         sink' = [sink EXCEPT ![s] = log]
  PROVE  /\ (sink = [t \in Sinks |-> sink[t]])'
         /\ \A t \in Sinks : sink'[t] \in LogOf(EntriesOf(t))
         /\ Extends(sink[s], EntryFor(c, s), sink'[s])
  <1>1. log \in LogOf(EntriesOf(s)) /\ Extends(sink[s], EntryFor(c, s), log)
    BY EntryType, AppendsExtend DEF VerdictInv, TypeOK
  <1>2. QED
    BY <1>1 DEF VerdictInv, TypeOK

\* An emission is an append, written or failed.
LEMMA EmitAppends ==
  ASSUME NEW c \in Callers, NEW s \in Sinks, Emit(c, s)
  PROVE  \E log \in FailedAppends(sink[s], EntryFor(c, s)) :
           sink' = [sink EXCEPT ![s] = log]
  BY WrittenIsAnAppend DEF Emit

\* An emission, written or failed, leaves the result as it is.
LEMMA EmitKeepsVerdicts ==
  ASSUME VerdictInv, NEW c \in Callers, NEW s \in Sinks, Emit(c, s)
  PROVE  VerdictInv' /\ call'[c] \in Calls
  <1>1. PICK written \in BOOLEAN :
          call' = [call EXCEPT ![c].phase = Onward(c, s, written),
                               ![c].emitted = Emitted(c, s, written),
                               ![c].feedbackId = FeedbackId(c, s)]
    BY DEF Emit
  <1> DEFINE new == [call[c] EXCEPT !.phase = Onward(c, s, written),
                                    !.emitted = Emitted(c, s, written),
                                    !.feedbackId = FeedbackId(c, s)]
  <1>2. /\ call[c] \in Calls /\ call[c] # Idle /\ call[c].phase = s
        /\ call[c].attempt <= Limit(call[c].options)
        /\ UNCHANGED <<calls, returned>>
    BY DEF Emit, InPhase, VerdictInv, TypeOK
  <1>3. Onward(c, s, written) \in Phases \ {"attempt"}
    BY PhasesFollow DEF Onward
  <1>4. Emitted(c, s, written) \in BOOLEAN /\ FeedbackId(c, s) \in Nat \cup {Null}
    BY <1>2 DEF Emitted, FeedbackId, Calls
  <1>5. call' = [call EXCEPT ![c] = new]
    BY <1>1 DEF VerdictInv, TypeOK
  <1>6. /\ new \in Calls /\ new.attempt <= Limit(new.options)
        /\ new.result = call[c].result /\ new.phase # "attempt"
    BY <1>2, <1>3, <1>4 DEF Calls
  <1>7. call'[c] = new
    BY <1>5 DEF VerdictInv, TypeOK
  <1>8. call[c].result # Null /\ Explained(call[c].result)
    BY <1>2 DEF VerdictInv, Concluded, ResultIsVerdict, Sinks
  <1>9. Attempting(c)' /\ Concluded(c)'
    BY <1>6, <1>7, <1>8 DEF Attempting, Concluded
  <1>10. /\ (sink = [t \in Sinks |-> sink[t]])'
         /\ \A t \in Sinks : sink'[t] \in LogOf(EntriesOf(t))
    BY EmitAppends, SinksKeepType DEF Emit
  <1>11. QED
    BY <1>2, <1>5, <1>6, <1>7, <1>8, <1>9, <1>10, OneCallChanges
       DEF VerdictInv, TypeOK, ResultIsVerdict

\* What is returned is the verdict the call concluded with.
LEMMA ReturnKeepsVerdicts ==
  ASSUME VerdictInv, NEW c \in Callers, Return(c)
  PROVE  VerdictInv'
  <1>1. /\ call[c] \in Calls /\ call[c].result # Null
        /\ Explained(call[c].result)
    BY DEF Return, InPhase, VerdictInv, TypeOK, Concluded, ResultIsVerdict
  <1>2. /\ returned' = returned \cup {[id |-> call[c].id, result |-> call[c].result]}
        /\ call' = [call EXCEPT ![c] = Idle] /\ UNCHANGED <<sink, calls>>
    BY DEF Return
  <1>3. call'[c] = Idle
    BY <1>2 DEF VerdictInv, TypeOK
  <1>4. Attempting(c)' /\ Concluded(c)'
    BY <1>3 DEF Attempting, Concluded
  <1>5. /\ returned' \subseteq [id : Nat, result : Results]
        /\ \A r \in returned' : Explained(r.result)
    BY <1>1, <1>2 DEF VerdictInv, TypeOK, ResultIsVerdict, Calls
  <1>6. QED
    BY <1>2, <1>4, <1>5, OneCallChanges DEF VerdictInv, TypeOK

\* A crash loses a call and leaves the returned results as they are.
LEMMA CrashKeepsVerdicts ==
  ASSUME VerdictInv, NEW c \in Callers, Crash(c)
  PROVE  VerdictInv'
  <1>1. call' = [call EXCEPT ![c] = Idle] /\ UNCHANGED <<calls, returned>>
    BY DEF Crash
  <1>2. call'[c] = Idle
    BY <1>1 DEF VerdictInv, TypeOK
  <1>3. Attempting(c)' /\ Concluded(c)'
    BY <1>2 DEF Attempting, Concluded
  <1>4. /\ (sink = [t \in Sinks |-> sink[t]])'
        /\ \A t \in Sinks : sink'[t] \in LogOf(EntriesOf(t))
    <2>1. CASE sink' = sink
      BY <2>1 DEF VerdictInv, TypeOK
    <2>2. ASSUME NEW s \in Sinks, call[c].phase = s,
                 NEW log \in FailedAppends(sink[s], EntryFor(c, s)),
                 sink' = [sink EXCEPT ![s] = log]
          PROVE  /\ (sink = [t \in Sinks |-> sink[t]])'
                 /\ \A t \in Sinks : sink'[t] \in LogOf(EntriesOf(t))
      BY <2>2, SinksKeepType DEF Crash, InPhase
    <2>3. QED
      BY <2>1, <2>2 DEF Crash
  <1>5. QED
    BY <1>1, <1>3, <1>4, OneCallChanges DEF VerdictInv, TypeOK, ResultIsVerdict

\* Every step of the repair loop keeps the verdicts' invariant.
LEMMA NextKeepsVerdicts == VerdictInv /\ [Next]_vars => VerdictInv'
  <1>1. ASSUME VerdictInv, UNCHANGED vars
        PROVE  VerdictInv'
    BY <1>1 DEF vars, VerdictInv, TypeOK, Attempting, Concluded, Matched, ResultIsVerdict
  <1>2. ASSUME VerdictInv, Next
        PROVE  VerdictInv'
    BY <1>2, BeginKeepsVerdicts, RetryKeepsVerdicts, ConcludeKeepsVerdicts,
       EmitKeepsVerdicts, ReturnKeepsVerdicts, CrashKeepsVerdicts DEF Next, Step
  <1>3. QED
    BY <1>1, <1>2

\* Calls under way, their results and the returned ones agree with the verdict of
\* runRuleFirstRepairLoop in every reachable state.
THEOREM VerdictInvariant == Spec => []VerdictInv
  BY InitVerdict, NextKeepsVerdicts, PTL DEF Spec

\* Calls, results and files keep their types, and no call goes past its limit.
THEOREM RepairTypeCorrect == Spec => []TypeOK
  <1>1. VerdictInv => TypeOK
    BY DEF VerdictInv
  <1>2. QED
    BY <1>1, VerdictInvariant, PTL

\* Every result a call comes to, and every result it returned, is the verdict of
\* its failure and its limit, with every attempt in its history.
THEOREM ResultsAreVerdicts == Spec => []ResultIsVerdict
  <1>1. VerdictInv => ResultIsVerdict
    BY DEF VerdictInv
  <1>2. QED
    BY <1>1, VerdictInvariant, PTL

-----------------------------------------------------------------------------
(* What the files say: any number of processes append, fail and die.         *)

\* How far a call has come.
Rank(phase) ==
  IF phase = "attempt" THEN 0
  ELSE IF phase = "feedback" THEN 1
  ELSE IF phase = "inspection" THEN 2
  ELSE IF phase = "report" THEN 3
  ELSE 4

\* No two calls, under way or returned, have the same id.
IdsApart ==
  /\ \A c \in Callers : call[c] # Idle => call[c].id <= calls
  /\ \A c, d \in Callers :
       call[c] # Idle /\ call[d] # Idle /\ call[c].id = call[d].id => c = d
  /\ \A r \in returned :
       /\ r.id <= calls
       /\ \A c \in Callers : call[c] # Idle => r.id # call[c].id

\* A file has a record of a call under way only if the call is past that file,
\* and then it is the call's decision.
LinesKnown ==
  \A s \in Sinks : \A i \in Readable(sink[s]) :
    /\ sink[s].lines[i].id <= calls
    /\ \A c \in Callers :
         call[c] # Idle /\ sink[s].lines[i].id = call[c].id =>
           /\ Rank(call[c].phase) > Rank(s)
           /\ sink[s].lines[i].decision = call[c].result.decision

SinkInv == VerdictInv /\ IdsApart /\ LinesKnown /\ OneOutcomePerCall

-----------------------------------------------------------------------------
\* The emissions of a call come in one order: where it goes on is past where it was.
LEMMA RanksGrow ==
  ASSUME NEW o, NEW s \in Sinks
  PROVE  /\ Rank(After(s, o)) > Rank(s)
         /\ Rank(s) > 0
         /\ Rank("attempt") = 0
         /\ Rank(s) \in Nat /\ Rank(After(s, o)) \in Nat
  BY DEF Rank, After, AfterFeedback, AfterInspection, Sinks

\* A readable line has an id.
LEMMA LineTypes ==
  ASSUME TypeOK, NEW s \in Sinks, NEW i \in Readable(sink[s])
  PROVE  sink[s].lines[i].id \in Nat
  <1>1. sink[s].lines \in Seq(EntriesOf(s) \cup {Garbled})
    BY DEF TypeOK, LogOf
  <1>2. sink[s].lines[i] \in EntriesOf(s)
    BY <1>1 DEF Readable
  <1>3. QED
    BY <1>2 DEF EntriesOf, FeedbackEntries, InspectionEntries

\* The files' invariant holds at first: the files are empty.
LEMMA InitSinks == Init => SinkInv
  <1> SUFFICES ASSUME Init
               PROVE  SinkInv
    OBVIOUS
  <1>1. \A s \in Sinks : Readable(sink[s]) = {}
    BY DEF Init, Readable, EmptyLog
  <1>2. IdsApart
    BY DEF Init, IdsApart
  <1>3. QED
    BY <1>1, <1>2, InitVerdict DEF SinkInv, LinesKnown, OneOutcomePerCall

\* The readable lines after an append are the ones before it, and at most the
\* entry of the caller.
LEMMA LinesAfterAppend ==
  ASSUME VerdictInv, NEW c \in Callers, NEW s \in Sinks, InPhase(c, s),
         NEW log \in FailedAppends(sink[s], EntryFor(c, s)),
         sink' = [sink EXCEPT ![s] = log]
  PROVE  \A t \in Sinks : \A i \in Readable(sink'[t]) :
           \/ i \in Readable(sink[t]) /\ sink'[t].lines[i] = sink[t].lines[i]
           \/ /\ t = s /\ i = Len(sink[s].lines) + 1
              /\ sink'[t].lines[i] = EntryFor(c, s)
  <1> SUFFICES ASSUME NEW t \in Sinks, NEW i \in Readable(sink'[t])
               PROVE  \/ i \in Readable(sink[t]) /\ sink'[t].lines[i] = sink[t].lines[i]
                      \/ /\ t = s /\ i = Len(sink[s].lines) + 1
                         /\ sink'[t].lines[i] = EntryFor(c, s)
    OBVIOUS
  <1>1. i \in DOMAIN sink'[t].lines /\ sink'[t].lines[i] # Garbled
    BY DEF Readable
  <1>2. CASE t # s
    BY <1>1, <1>2 DEF VerdictInv, TypeOK, Readable
  <1>3. CASE t = s
    BY <1>1, <1>3, SinksKeepType DEF Extends, Readable
  <1>4. QED
    BY <1>2, <1>3

\* What a call emits names the call and says what it decided.
LEMMA EntrySays ==
  ASSUME NEW c, NEW s
  PROVE  /\ EntryFor(c, s).id = call[c].id
         /\ EntryFor(c, s).decision = call[c].result.decision
  BY DEF EntryFor

\* An append keeps the outcomes: the caller had no line in this file, its lines
\* in the others say the same, and it has not returned.
LEMMA AppendKeepsOutcomes ==
  ASSUME SinkInv, NEW c \in Callers, NEW s \in Sinks, InPhase(c, s),
         NEW log \in FailedAppends(sink[s], EntryFor(c, s)),
         sink' = [sink EXCEPT ![s] = log], returned' = returned
  PROVE  OneOutcomePerCall'
  <1>1. call[c] # Idle /\ call[c].phase = s
    BY DEF InPhase
  <1>2. SUFFICES ASSUME NEW t \in Sinks, NEW u \in Sinks,
                        NEW i \in Readable(sink'[t]), NEW j \in Readable(sink'[u]),
                        sink'[t].lines[i].id = sink'[u].lines[j].id
                 PROVE  /\ t = u => i = j
                        /\ sink'[t].lines[i].decision = sink'[u].lines[j].decision
                        /\ \A r \in returned' :
                             r.id = sink'[t].lines[i].id =>
                               r.result.decision = sink'[t].lines[i].decision
    BY DEF OneOutcomePerCall
  <1> DEFINE Old(v, k) == k \in Readable(sink[v]) /\ sink'[v].lines[k] = sink[v].lines[k]
             New(v, k) == /\ v = s /\ k = Len(sink[s].lines) + 1
                          /\ sink'[v].lines[k] = EntryFor(c, s)
  <1>3. (Old(t, i) \/ New(t, i)) /\ (Old(u, j) \/ New(u, j))
    <2>1. \A v \in Sinks : \A k \in Readable(sink'[v]) : Old(v, k) \/ New(v, k)
      BY LinesAfterAppend DEF SinkInv
    <2> HIDE DEF Old, New
    <2>2. QED
      BY <2>1
  <1>4. \A v \in Sinks : \A k \in Readable(sink[v]) :
          sink[v].lines[k].id = call[c].id =>
            /\ v # s
            /\ sink[v].lines[k].decision = call[c].result.decision
    BY <1>1, RanksGrow DEF SinkInv, LinesKnown
  <1>5. \A r \in returned : r.id # call[c].id
    BY <1>1 DEF SinkInv, IdsApart
  <1>6. CASE Old(t, i) /\ Old(u, j)
    <2>1. /\ i \in Readable(sink[t]) /\ j \in Readable(sink[u])
          /\ sink[t].lines[i].id = sink[u].lines[j].id
      BY <1>2, <1>6
    <2>2. /\ t = u => i = j
          /\ sink[t].lines[i].decision = sink[u].lines[j].decision
          /\ \A r \in returned :
               r.id = sink[t].lines[i].id => r.result.decision = sink[t].lines[i].decision
      BY <2>1 DEF SinkInv, OneOutcomePerCall
    <2>3. QED
      BY <2>2, <1>6
  <1>7. CASE Old(t, i) /\ New(u, j)
    <2>1. /\ sink'[u].lines[j].id = call[c].id
          /\ sink'[u].lines[j].decision = call[c].result.decision
      BY <1>7, EntrySays
    <2>2. /\ i \in Readable(sink[t]) /\ sink[t].lines[i].id = call[c].id
          /\ sink'[t].lines[i] = sink[t].lines[i]
      BY <1>2, <1>7, <2>1
    <2>3. t # s /\ sink[t].lines[i].decision = call[c].result.decision
      BY <1>4, <2>2
    <2>4. QED
      BY <1>5, <1>7, <2>1, <2>2, <2>3
  <1>8. CASE New(t, i) /\ Old(u, j)
    <2>1. /\ sink'[t].lines[i].id = call[c].id
          /\ sink'[t].lines[i].decision = call[c].result.decision
      BY <1>8, EntrySays
    <2>2. /\ j \in Readable(sink[u]) /\ sink[u].lines[j].id = call[c].id
          /\ sink'[u].lines[j] = sink[u].lines[j]
      BY <1>2, <1>8, <2>1
    <2>3. u # s /\ sink[u].lines[j].decision = call[c].result.decision
      BY <1>4, <2>2
    <2>4. QED
      BY <1>5, <1>8, <2>1, <2>2, <2>3
  <1>9. CASE New(t, i) /\ New(u, j)
    BY <1>5, <1>9, EntrySays
  <1>10. QED
    BY <1>3, <1>6, <1>7, <1>8, <1>9

\* The readable lines are all of calls that have begun; those of other calls under
\* way are as they were.
LEMMA AppendKeepsOtherLines ==
  ASSUME SinkInv, NEW c \in Callers, NEW s \in Sinks, InPhase(c, s),
         NEW log \in FailedAppends(sink[s], EntryFor(c, s)),
         sink' = [sink EXCEPT ![s] = log]
  PROVE  \A t \in Sinks : \A i \in Readable(sink'[t]) :
           /\ sink'[t].lines[i].id <= calls
           /\ \A d \in Callers \ {c} :
                call[d] # Idle /\ sink'[t].lines[i].id = call[d].id =>
                  /\ Rank(call[d].phase) > Rank(t)
                  /\ sink'[t].lines[i].decision = call[d].result.decision
           /\ sink'[t].lines[i].id = call[c].id =>
                /\ sink'[t].lines[i].decision = call[c].result.decision
                /\ t = s \/ Rank(call[c].phase) > Rank(t)
  <1> DEFINE Known(t, line) ==
               /\ line.id <= calls
               /\ \A d \in Callers \ {c} :
                    call[d] # Idle /\ line.id = call[d].id =>
                      /\ Rank(call[d].phase) > Rank(t)
                      /\ line.decision = call[d].result.decision
               /\ line.id = call[c].id =>
                    /\ line.decision = call[c].result.decision
                    /\ t = s \/ Rank(call[c].phase) > Rank(t)
  <1>1. call[c] # Idle
    BY DEF InPhase
  <1>2. \A t \in Sinks : \A i \in Readable(sink[t]) : Known(t, sink[t].lines[i])
    BY <1>1 DEF SinkInv, LinesKnown
  <1>3. Known(s, EntryFor(c, s))
    <2>1. EntryFor(c, s).id = call[c].id /\ EntryFor(c, s).decision = call[c].result.decision
      BY EntrySays
    <2>2. /\ call[c].id <= calls
          /\ \A d \in Callers \ {c} : call[d] # Idle => call[d].id # call[c].id
      BY <1>1 DEF SinkInv, IdsApart
    <2>3. QED
      BY <2>1, <2>2
  <1>4. \A t \in Sinks : \A i \in Readable(sink'[t]) :
          \/ i \in Readable(sink[t]) /\ sink'[t].lines[i] = sink[t].lines[i]
          \/ /\ t = s /\ i = Len(sink[s].lines) + 1
             /\ sink'[t].lines[i] = EntryFor(c, s)
    BY LinesAfterAppend DEF SinkInv
  <1> HIDE DEF Known
  <1>5. \A t \in Sinks : \A i \in Readable(sink'[t]) : Known(t, sink'[t].lines[i])
    <2> TAKE t \in Sinks
    <2> TAKE i \in Readable(sink'[t])
    <2>1. CASE i \in Readable(sink[t]) /\ sink'[t].lines[i] = sink[t].lines[i]
      <3>1. Known(t, sink[t].lines[i])
        BY <1>2, <2>1
      <3>2. QED
        BY <2>1, <3>1
    <2>2. CASE t = s /\ sink'[t].lines[i] = EntryFor(c, s)
      BY <1>3, <2>2
    <2>3. QED
      BY <1>4, <2>1, <2>2
  <1>6. QED
    BY <1>5 DEF Known

-----------------------------------------------------------------------------
(* The invariant is inductive.                                               *)

\* Where the files and what was returned stay, and the caller's id and result with
\* them, the caller may only go on.
LEMMA GoingOnKeepsSinks ==
  ASSUME SinkInv, VerdictInv', NEW c \in Callers, call[c] # Idle, call'[c] # Idle,
         UNCHANGED <<sink, calls, returned>>,
         \A d \in Callers \ {c} : call'[d] = call[d],
         call'[c].id = call[c].id,
         call[c].phase = "attempt"
  PROVE  SinkInv'
  <1>1. IdsApart'
    <2>1. \A d \in Callers : (call'[d] # Idle <=> call[d] # Idle)
                             /\ (call[d] # Idle => call'[d].id = call[d].id)
      OBVIOUS
    <2>2. QED
      BY <2>1 DEF SinkInv, IdsApart
  <1>2. OneOutcomePerCall'
    BY DEF SinkInv, OneOutcomePerCall
  <1>3. LinesKnown'
    <2>1. \A s \in Sinks : \A i \in Readable(sink[s]) : sink[s].lines[i].id # call[c].id
      BY RanksGrow DEF SinkInv, LinesKnown
    <2>2. QED
      BY <2>1 DEF SinkInv, LinesKnown
  <1>4. QED
    BY <1>1, <1>2, <1>3 DEF SinkInv

\* The id of a call that begins is in no file and with no other call.
LEMMA BeginKeepsSinks ==
  ASSUME SinkInv, NEW c \in Callers, Begin(c)
  PROVE  SinkInv'
  <1>1. VerdictInv'
    BY BeginKeepsVerdicts DEF SinkInv
  <1>2. /\ call[c] = Idle /\ calls' = calls + 1 /\ calls \in Nat
        /\ UNCHANGED <<sink, returned>>
        /\ \A d \in Callers \ {c} : call'[d] = call[d]
        /\ call'[c].id = calls'
    BY DEF Begin, SinkInv, VerdictInv, TypeOK
  <1>3. \A d \in Callers : call[d] # Idle => call[d].id \in Nat /\ call[d].id <= calls
    BY CallType DEF SinkInv, VerdictInv, IdsApart, Calls
  <1>4. \A r \in returned : r.id \in Nat /\ r.id <= calls
    BY DEF SinkInv, VerdictInv, TypeOK, IdsApart
  <1>5. \A s \in Sinks : \A i \in Readable(sink[s]) :
          sink[s].lines[i].id \in Nat /\ sink[s].lines[i].id <= calls
    BY LineTypes DEF SinkInv, VerdictInv, LinesKnown
  <1>6. IdsApart'
    BY <1>2, <1>3, <1>4 DEF SinkInv, IdsApart
  <1>7. LinesKnown'
    BY <1>2, <1>5 DEF SinkInv, LinesKnown
  <1>8. OneOutcomePerCall'
    BY <1>2 DEF SinkInv, OneOutcomePerCall
  <1>9. QED
    BY <1>1, <1>6, <1>7, <1>8 DEF SinkInv

\* Attempts leave the files alone.
LEMMA AttemptKeepsSinks ==
  ASSUME SinkInv, NEW c \in Callers, Retry(c) \/ Conclude(c)
  PROVE  SinkInv'
  <1>1. VerdictInv' /\ call'[c] \in Calls
    BY RetryKeepsVerdicts, ConcludeKeepsVerdicts DEF SinkInv
  <1>2. /\ call[c] \in Calls /\ call[c] # Idle /\ call[c].phase = "attempt"
        /\ UNCHANGED <<sink, calls, returned>>
    BY DEF Retry, Conclude, InPhase, SinkInv, VerdictInv, TypeOK
  <1>3. /\ \A d \in Callers \ {c} : call'[d] = call[d]
        /\ call'[c].id = call[c].id
    BY <1>2 DEF Retry, Conclude, SinkInv, VerdictInv, TypeOK, Calls
  <1>4. call'[c] # Idle
    BY <1>1, NullAssumption DEF Idle
  <1>5. QED
    BY <1>1, <1>2, <1>3, <1>4, GoingOnKeepsSinks

\* An append of a caller that goes on or dies.
LEMMA AppendKeepsSinks ==
  ASSUME SinkInv, VerdictInv', NEW c \in Callers, NEW s \in Sinks, InPhase(c, s),
         NEW log \in FailedAppends(sink[s], EntryFor(c, s)),
         sink' = [sink EXCEPT ![s] = log],
         UNCHANGED <<calls, returned>>,
         \A d \in Callers \ {c} : call'[d] = call[d],
         call'[c] # Idle =>
           /\ call'[c].id = call[c].id
           /\ call'[c].result = call[c].result
           /\ Rank(call'[c].phase) > Rank(s)
           /\ \A t \in Sinks : Rank(call[c].phase) > Rank(t) =>
                               Rank(call'[c].phase) > Rank(t)
  PROVE  SinkInv'
  <1>1. call[c] # Idle
    BY DEF InPhase
  <1>2. IdsApart'
    <2>1. \A d \in Callers : call'[d] # Idle =>
            call[d] # Idle /\ call'[d].id = call[d].id
      BY <1>1
    <2>2. QED
      BY <2>1 DEF SinkInv, IdsApart
  <1>3. LinesKnown'
    <2> SUFFICES ASSUME NEW t \in Sinks, NEW i \in Readable(sink'[t])
                 PROVE  /\ sink'[t].lines[i].id <= calls'
                        /\ \A d \in Callers :
                             call'[d] # Idle /\ sink'[t].lines[i].id = call'[d].id =>
                               /\ Rank(call'[d].phase) > Rank(t)
                               /\ sink'[t].lines[i].decision = call'[d].result.decision
      BY DEF LinesKnown
    <2>1. /\ sink'[t].lines[i].id <= calls
          /\ \A d \in Callers \ {c} :
               call[d] # Idle /\ sink'[t].lines[i].id = call[d].id =>
                 /\ Rank(call[d].phase) > Rank(t)
                 /\ sink'[t].lines[i].decision = call[d].result.decision
          /\ sink'[t].lines[i].id = call[c].id =>
               /\ sink'[t].lines[i].decision = call[c].result.decision
               /\ t = s \/ Rank(call[c].phase) > Rank(t)
      BY ZenonT(60), AppendKeepsOtherLines
    <2>2. QED
      BY <2>1
  <1>4. OneOutcomePerCall'
    BY AppendKeepsOutcomes
  <1>5. QED
    BY <1>2, <1>3, <1>4 DEF SinkInv

\* An emission adds at most one line of the call, to a file that has none of it.
LEMMA EmitKeepsSinks ==
  ASSUME SinkInv, NEW c \in Callers, NEW s \in Sinks, Emit(c, s)
  PROVE  SinkInv'
  <1>1. VerdictInv' /\ call'[c] \in Calls
    BY EmitKeepsVerdicts DEF SinkInv
  <1>2. /\ InPhase(c, s) /\ call[c] \in Calls /\ call[c].phase = s
        /\ UNCHANGED <<calls, returned>>
    BY DEF Emit, InPhase, SinkInv, VerdictInv, TypeOK
  <1>3. PICK log \in FailedAppends(sink[s], EntryFor(c, s)) :
          sink' = [sink EXCEPT ![s] = log]
    BY EmitAppends
  <1>4. /\ \A d \in Callers \ {c} : call'[d] = call[d]
        /\ call'[c].id = call[c].id
        /\ call'[c].result = call[c].result
        /\ call'[c].phase = After(s, call[c].options)
    BY <1>2 DEF Emit, Onward, SinkInv, VerdictInv, TypeOK, Calls
  <1>5. /\ Rank(call'[c].phase) > Rank(s)
        /\ \A t \in Sinks : Rank(call[c].phase) > Rank(t) =>
                            Rank(call'[c].phase) > Rank(t)
    BY <1>2, <1>4, RanksGrow
  <1>6. QED
    BY <1>1, <1>2, <1>3, <1>4, <1>5, AppendKeepsSinks

\* A call that is over leaves lines that say what it returned, if it returned.
LEMMA LeavingKeepsSinks ==
  ASSUME SinkInv, VerdictInv', NEW c \in Callers, call[c] # Idle, call'[c] = Idle,
         \A d \in Callers \ {c} : call'[d] = call[d],
         UNCHANGED <<sink, calls>>,
         \/ returned' = returned
         \/ returned' = returned \cup {[id |-> call[c].id, result |-> call[c].result]}
  PROVE  SinkInv'
  <1>1. IdsApart'
    BY DEF SinkInv, IdsApart
  <1>2. LinesKnown'
    BY DEF SinkInv, LinesKnown
  <1>3. \A s \in Sinks : \A i \in Readable(sink[s]) :
          sink[s].lines[i].id = call[c].id =>
            sink[s].lines[i].decision = call[c].result.decision
    BY DEF SinkInv, LinesKnown
  <1>4. \A r \in returned' :
          \/ r \in returned
          \/ r.id = call[c].id /\ r.result = call[c].result
    OBVIOUS
  <1>5. OneOutcomePerCall'
    BY <1>3, <1>4 DEF SinkInv, OneOutcomePerCall
  <1>6. QED
    BY <1>1, <1>2, <1>5 DEF SinkInv

\* A return agrees with the lines the call has left.
LEMMA ReturnKeepsSinks ==
  ASSUME SinkInv, NEW c \in Callers, Return(c)
  PROVE  SinkInv'
  <1>1. VerdictInv'
    BY ReturnKeepsVerdicts DEF SinkInv
  <1>2. /\ call[c] # Idle /\ call'[c] = Idle /\ UNCHANGED <<sink, calls>>
        /\ \A d \in Callers \ {c} : call'[d] = call[d]
        /\ returned' = returned \cup {[id |-> call[c].id, result |-> call[c].result]}
    BY DEF Return, InPhase, SinkInv, VerdictInv, TypeOK
  <1>3. QED
    BY <1>1, <1>2, LeavingKeepsSinks

\* A crash leaves at most the line the call was about to write.
LEMMA CrashKeepsSinks ==
  ASSUME SinkInv, NEW c \in Callers, Crash(c)
  PROVE  SinkInv'
  <1>1. VerdictInv'
    BY CrashKeepsVerdicts DEF SinkInv
  <1>2. /\ call[c] # Idle /\ call'[c] = Idle /\ UNCHANGED <<calls, returned>>
        /\ \A d \in Callers \ {c} : call'[d] = call[d]
    BY DEF Crash, SinkInv, VerdictInv, TypeOK
  <1>3. CASE sink' = sink
    BY <1>1, <1>2, <1>3, LeavingKeepsSinks
  <1>4. ASSUME NEW s \in Sinks, call[c].phase = s,
               NEW log \in FailedAppends(sink[s], EntryFor(c, s)),
               sink' = [sink EXCEPT ![s] = log]
        PROVE  SinkInv'
    BY <1>1, <1>2, <1>4, AppendKeepsSinks DEF InPhase
  <1>5. QED
    BY <1>3, <1>4 DEF Crash

\* Every step of the repair loop keeps the files' invariant.
LEMMA NextKeepsSinks == SinkInv /\ [Next]_vars => SinkInv'
  <1>1. ASSUME SinkInv, UNCHANGED vars
        PROVE  SinkInv'
    <2>1. VerdictInv'
      BY <1>1, NextKeepsVerdicts DEF SinkInv
    <2>2. QED
      BY <1>1, <2>1 DEF vars, SinkInv, IdsApart, LinesKnown, OneOutcomePerCall
  <1>2. ASSUME SinkInv, Next
        PROVE  SinkInv'
    BY <1>2, BeginKeepsSinks, AttemptKeepsSinks, EmitKeepsSinks, ReturnKeepsSinks,
       CrashKeepsSinks DEF Next, Step
  <1>3. QED
    BY <1>1, <1>2

\* In no file are there two readable records of one call, and the records of a
\* call say what it returned, whatever else is appended, fails or dies.
THEOREM OneOutcome == Spec => []OneOutcomePerCall
  <1>1. SinkInv => OneOutcomePerCall
    BY DEF SinkInv
  <1>2. QED
    BY <1>1, InitSinks, NextKeepsSinks, PTL DEF Spec
-----------------------------------------------------------------------------
(* Links.                                                                    *)

\* The calls whose FeedbackTensor record can be read, and those whose inspection
\* entry says that it was emitted.
Found   == {sink["feedback"].lines[i].id : i \in Readable(sink["feedback"])}
Claimed ==
  {sink["inspection"].lines[i].id :
     i \in {j \in Readable(sink["inspection"]) : sink["inspection"].lines[j].feedbackEmitted}}

\* The calls that took their FeedbackTensor append for done, and whose record is
\* nowhere to be read.
Acked == Claimed \cup {call[c].id : c \in {d \in Callers : call[d] # Idle /\ call[d].emitted}}
Lost  == Acked \ Found

\* Each of them was glued to the piece of a torn line.
LinkInv ==
  /\ IsFiniteSet(Lost)
  /\ Cardinality(Lost) <= Cardinality(GarbledLines("feedback"))

LEMMA InitLinks == Init => LinkInv
  <1> SUFFICES ASSUME Init
               PROVE  LinkInv
    OBVIOUS
  <1>1. \A s \in Sinks : Readable(sink[s]) = {} /\ DOMAIN sink[s].lines = {}
    BY DEF Init, Readable, EmptyLog
  <1>2. Lost = {} /\ GarbledLines("feedback") = {}
    BY <1>1 DEF Init, Lost, Acked, Claimed, GarbledLines, Sinks
  <1>3. QED
    BY <1>2, FS_EmptySet DEF LinkInv

\* There are finitely many lines that cannot be read.
LEMMA GarbledAreFinite ==
  ASSUME TypeOK, NEW s \in Sinks
  PROVE  IsFiniteSet(GarbledLines(s))
  <1>1. sink[s] \in LogOf(EntriesOf(s))
    BY DEF TypeOK
  <1>2. QED
    BY <1>1, UnreadableIsFinite DEF GarbledLines

\* Where the files stay, no call takes more for written than before.
LEMMA NothingMoreAcked ==
  ASSUME LinkInv, SinkInv, sink' = sink,
         \A c \in Callers : call'[c] # Idle /\ call'[c].emitted =>
           call[c] # Idle /\ call[c].emitted /\ call'[c].id = call[c].id
  PROVE  LinkInv'
  <1>1. Claimed' = Claimed /\ Found' = Found /\ GarbledLines("feedback")' = GarbledLines("feedback")
    BY DEF Claimed, Found, GarbledLines
  <1>2. Lost' \subseteq Lost
    BY <1>1 DEF Lost, Acked
  <1>3. IsFiniteSet(GarbledLines("feedback"))
    BY GarbledAreFinite DEF SinkInv, VerdictInv, Sinks
  <1>4. IsFiniteSet(Lost) /\ Cardinality(Lost) <= Cardinality(GarbledLines("feedback"))
    BY DEF LinkInv
  <1>5. IsFiniteSet(Lost') /\ Cardinality(Lost') <= Cardinality(GarbledLines("feedback"))
    BY <1>2, <1>3, <1>4, LostCounted
  <1>6. QED
    BY <1>1, <1>5 DEF LinkInv

\* A FeedbackTensor append that is done is one more that may be linked to, and has
\* added the record, or else a line that cannot be read.
LEMMA AppendKeepsLinks ==
  ASSUME LinkInv, SinkInv, NEW c \in Callers, NEW s \in Sinks, InPhase(c, s),
         NEW written \in BOOLEAN, NEW log \in FailedAppends(sink[s], EntryFor(c, s)),
         sink' = [sink EXCEPT ![s] = log],
         written => log = Appended(sink[s], EntryFor(c, s)),
         \A d \in Callers \ {c} : call'[d] = call[d],
         call'[c] # Idle =>
           /\ call'[c].id = call[c].id
           /\ call'[c].emitted => call[c].emitted \/ (s = "feedback" /\ written)
  PROVE  LinkInv'
  <1>1. /\ sink'[s] = log /\ \A t \in Sinks \ {s} : sink'[t] = sink[t]
        /\ sink[s] \in LogOf(EntriesOf(s)) /\ call[c] # Idle /\ call[c].phase = s
    BY DEF SinkInv, VerdictInv, TypeOK, InPhase
  <1>2. /\ EntryFor(c, s).id = call[c].id
        /\ s = "inspection" => EntryFor(c, s).feedbackEmitted = call[c].emitted
    BY DEF EntryFor
  <1>3. Claimed' \subseteq Acked
    <2> SUFFICES ASSUME NEW i \in Readable(sink'["inspection"]),
                        sink'["inspection"].lines[i].feedbackEmitted
                 PROVE  sink'["inspection"].lines[i].id \in Acked
      BY DEF Claimed
    <2>1. CASE /\ i \in Readable(sink["inspection"])
               /\ sink'["inspection"].lines[i] = sink["inspection"].lines[i]
      BY <2>1 DEF Acked, Claimed
    <2>2. CASE s = "inspection" /\ sink'["inspection"].lines[i] = EntryFor(c, s)
      BY <1>1, <1>2, <2>2 DEF Acked
    <2>3. "inspection" \in Sinks
      BY DEF Sinks
    <2>4. \A t \in Sinks : \A k \in Readable(sink'[t]) :
            \/ k \in Readable(sink[t]) /\ sink'[t].lines[k] = sink[t].lines[k]
            \/ /\ t = s /\ k = Len(sink[s].lines) + 1
               /\ sink'[t].lines[k] = EntryFor(c, s)
      BY LinesAfterAppend DEF SinkInv
    <2>5. QED
      BY <2>1, <2>2, <2>3, <2>4
  <1>4. ASSUME NEW x \in Acked'
        PROVE  x \in Acked \/ (s = "feedback" /\ written /\ x = call[c].id)
    <2>1. CASE x \in Claimed'
      BY <1>3, <2>1
    <2>2. CASE x \notin Claimed'
      <3>1. PICK d \in Callers : call'[d] # Idle /\ call'[d].emitted /\ x = call'[d].id
        BY <1>4, <2>2 DEF Acked
      <3>2. CASE d # c
        BY <3>1, <3>2 DEF Acked
      <3>3. CASE d = c
        BY <1>1, <3>1, <3>3 DEF Acked
      <3>4. QED
        BY <3>2, <3>3
    <2>3. QED
      BY <2>1, <2>2
  <1>5. CASE s = "feedback"
    <2> DEFINE old == sink[s]
               entry == EntryFor(c, s)
    <2>1. /\ old \in LogOf(EntriesOf(s)) /\ log \in FailedAppends(old, entry)
          /\ written => log = Appended(old, entry)
      BY <1>1
    <2>2. /\ GarbledLines("feedback") = DOMAIN old.lines \ Readable(old)
          /\ GarbledLines("feedback")' = DOMAIN log.lines \ Readable(log)
          /\ Found = {old.lines[i].id : i \in Readable(old)}
          /\ Found' = {log.lines[i].id : i \in Readable(log)}
          /\ entry.id = call[c].id
      BY <1>1, <1>2, <1>5 DEF GarbledLines, Found
    <2> HIDE DEF old, entry
    <2>3. /\ \A i \in Readable(old) : i \in Readable(log) /\ log.lines[i] = old.lines[i]
          /\ DOMAIN old.lines \ Readable(old) \subseteq DOMAIN log.lines \ Readable(log)
          /\ IsFiniteSet(DOMAIN log.lines \ Readable(log))
      BY <2>1, LinesStay
    <2>4. log = Appended(old, entry) =>
            \/ \E i \in Readable(log) : log.lines[i] = entry
            \/ \E i : /\ i \notin DOMAIN old.lines \ Readable(old)
                      /\ DOMAIN log.lines \ Readable(log) =
                           (DOMAIN old.lines \ Readable(old)) \cup {i}
      BY <2>1, LinesStay
    <2>5. Found \subseteq Found'
      BY <2>2, <2>3
    <2>6. /\ Lost' \subseteq Lost \cup {call[c].id}
          /\ ~written => Lost' \subseteq Lost
      BY <1>4, <2>5 DEF Lost
    <2>7. \/ Lost' \subseteq Lost
          \/ \E x, i : /\ Lost' \subseteq Lost \cup {x}
                       /\ i \notin GarbledLines("feedback")
                       /\ GarbledLines("feedback")' = GarbledLines("feedback") \cup {i}
      <3>1. ASSUME NEW i \in Readable(log), log.lines[i] = entry
            PROVE  Lost' \subseteq Lost
        <4>1. call[c].id \in Found'
          BY <2>2, <3>1
        <4>2. QED
          BY <2>6, <4>1 DEF Lost
      <3>2. QED
        BY <2>1, <2>2, <2>4, <2>6, <3>1
    <2>8. /\ IsFiniteSet(Lost) /\ Cardinality(Lost) <= Cardinality(GarbledLines("feedback"))
          /\ IsFiniteSet(GarbledLines("feedback")')
          /\ GarbledLines("feedback") \subseteq GarbledLines("feedback")'
      BY <2>2, <2>3 DEF LinkInv
    <2>9. IsFiniteSet(Lost') /\ Cardinality(Lost') <= Cardinality(GarbledLines("feedback")')
      BY <2>7, <2>8, LostCounted
    <2>10. QED
      BY <2>9 DEF LinkInv
  <1>6. CASE s # "feedback"
    <2>1. sink'["feedback"] = sink["feedback"]
      BY <1>1, <1>6 DEF Sinks
    <2>2. Found' = Found /\ GarbledLines("feedback")' = GarbledLines("feedback")
      BY <2>1 DEF Found, GarbledLines
    <2>3. Lost' \subseteq Lost
      BY <1>4, <1>6, <2>2 DEF Lost
    <2>4. IsFiniteSet(GarbledLines("feedback"))
      BY GarbledAreFinite DEF SinkInv, VerdictInv, Sinks
    <2>5. IsFiniteSet(Lost) /\ Cardinality(Lost) <= Cardinality(GarbledLines("feedback"))
      BY DEF LinkInv
    <2>6. IsFiniteSet(Lost') /\ Cardinality(Lost') <= Cardinality(GarbledLines("feedback"))
      BY <2>3, <2>4, <2>5, LostCounted
    <2>7. QED
      BY <2>2, <2>6 DEF LinkInv
  <1>7. QED
    BY <1>5, <1>6

\* Every step keeps the count of what is lost.
LEMMA NextKeepsLinks == SinkInv /\ LinkInv /\ [Next]_vars => LinkInv'
  <1> SUFFICES ASSUME SinkInv, LinkInv, [Next]_vars
               PROVE  LinkInv'
    OBVIOUS
  <1>1. call \in [Callers -> Calls \cup {Idle}]
    BY DEF SinkInv, VerdictInv, TypeOK
  <1>2. CASE UNCHANGED vars
    BY <1>2, NothingMoreAcked DEF vars
  <1>3. ASSUME NEW c \in Callers, Begin(c)
        PROVE  LinkInv'
    <2>1. /\ sink' = sink /\ \A d \in Callers \ {c} : call'[d] = call[d]
          /\ call'[c].emitted = FALSE
      BY <1>1, <1>3 DEF Begin
    <2>2. QED
      BY <2>1, NothingMoreAcked
  <1>4. ASSUME NEW c \in Callers, Retry(c) \/ Conclude(c)
        PROVE  LinkInv'
    <2>1. call[c] # Idle /\ call[c] \in Calls /\ sink' = sink
      BY <1>1, <1>4 DEF Retry, Conclude, InPhase
    <2>2. /\ \A d \in Callers \ {c} : call'[d] = call[d]
          /\ call'[c].emitted = call[c].emitted /\ call'[c].id = call[c].id
      BY <1>1, <1>4, <2>1 DEF Retry, Conclude, Calls
    <2>3. QED
      BY <2>1, <2>2, NothingMoreAcked
  <1>5. ASSUME NEW c \in Callers, NEW s \in Sinks, Emit(c, s)
        PROVE  LinkInv'
    <2>1. InPhase(c, s) /\ call[c] # Idle /\ call[c] \in Calls
      BY <1>1, <1>5 DEF Emit, InPhase
    <2>2. PICK written \in BOOLEAN :
            /\ \E log \in IF written THEN {Appended(sink[s], EntryFor(c, s))}
                                     ELSE FailedAppends(sink[s], EntryFor(c, s)) :
                 sink' = [sink EXCEPT ![s] = log]
            /\ call' = [call EXCEPT ![c].phase = Onward(c, s, written),
                                    ![c].emitted = Emitted(c, s, written),
                                    ![c].feedbackId = FeedbackId(c, s)]
      BY <1>5 DEF Emit
    <2>3. PICK log \in FailedAppends(sink[s], EntryFor(c, s)) :
            /\ sink' = [sink EXCEPT ![s] = log]
            /\ written => log = Appended(sink[s], EntryFor(c, s))
      BY <2>2 DEF FailedAppends
    <2>4. /\ \A d \in Callers \ {c} : call'[d] = call[d]
          /\ call'[c].id = call[c].id
          /\ call'[c].emitted = Emitted(c, s, written)
      BY <1>1, <2>1, <2>2 DEF Calls
    <2>5. call'[c].emitted => call[c].emitted \/ (s = "feedback" /\ written)
      BY <2>4 DEF Emitted
    <2>6. QED
      BY <2>1, <2>3, <2>4, <2>5, AppendKeepsLinks
  <1>6. ASSUME NEW c \in Callers, Return(c) \/ (Crash(c) /\ sink' = sink)
        PROVE  LinkInv'
    <2>1. sink' = sink /\ call'[c] = Idle /\ \A d \in Callers \ {c} : call'[d] = call[d]
      BY <1>1, <1>6 DEF Return, Crash
    <2>2. QED
      BY <2>1, NothingMoreAcked
  <1>7. ASSUME NEW c \in Callers, Crash(c), sink' # sink
        PROVE  LinkInv'
    <2>1. PICK s \in Sinks : /\ call[c].phase = s
                            /\ \E log \in FailedAppends(sink[s], EntryFor(c, s)) :
                                 sink' = [sink EXCEPT ![s] = log]
      BY <1>7 DEF Crash
    <2>2. /\ InPhase(c, s) /\ call'[c] = Idle
          /\ \A d \in Callers \ {c} : call'[d] = call[d]
      BY <1>1, <1>7, <2>1 DEF Crash, InPhase
    <2>3. PICK log \in FailedAppends(sink[s], EntryFor(c, s)) : sink' = [sink EXCEPT ![s] = log]
      BY <2>1
    <2>4. FALSE \in BOOLEAN
      OBVIOUS
    <2>5. QED
      BY <2>2, <2>3, <2>4, AppendKeepsLinks
  <1>8. QED
    BY <1>2, <1>3, <1>4, <1>5, <1>6, <1>7 DEF Next, Step

-----------------------------------------------------------------------------
(* Whose record a link is to.                                                *)

\* A call that took its FeedbackTensor append for done, or whose record can be read,
\* links to its own record, and so does its inspection entry.
OwnLinks ==
  /\ \A c \in Callers :
       call[c] # Idle /\ (call[c].emitted \/ call[c].id \in Found) =>
         call[c].feedbackId = call[c].id
  /\ \A i \in Readable(sink["inspection"]) :
       LET e == sink["inspection"].lines[i]
       IN e.feedbackEmitted \/ e.id \in Found => e.feedbackId = e.id

LEMMA InitOwnLinks == Init => OwnLinks
  <1> SUFFICES ASSUME Init
               PROVE  OwnLinks
    OBVIOUS
  <1>1. Readable(sink["inspection"]) = {}
    BY DEF Init, Readable, EmptyLog, Sinks
  <1>2. QED
    BY <1>1 DEF Init, OwnLinks

\* Where the files stay, a call keeps its link, or has emitted nothing.
LEMMA StayingKeepsOwnLinks ==
  ASSUME OwnLinks, sink' = sink,
         \A c \in Callers : call'[c] # Idle =>
           \/ /\ call[c] # Idle /\ call'[c].emitted = call[c].emitted
              /\ call'[c].id = call[c].id /\ call'[c].feedbackId = call[c].feedbackId
           \/ ~call'[c].emitted /\ call'[c].id \notin Found
  PROVE  OwnLinks'
  <1>1. Found' = Found
    BY DEF Found
  <1>2. QED
    BY <1>1 DEF OwnLinks

\* An append adds at most a record of the caller: to FeedbackTensor, when it has no
\* inspection entry yet and is about to keep the link, or an entry with the link it
\* has kept.
LEMMA AppendKeepsOwnLinks ==
  ASSUME OwnLinks, SinkInv, NEW c \in Callers, NEW s \in Sinks, InPhase(c, s),
         NEW log \in FailedAppends(sink[s], EntryFor(c, s)),
         sink' = [sink EXCEPT ![s] = log],
         \A d \in Callers \ {c} : call'[d] = call[d],
         call'[c] # Idle =>
           /\ call'[c].id = call[c].id
           /\ IF s = "feedback" THEN call'[c].feedbackId = call[c].id
              ELSE call'[c].emitted = call[c].emitted
                   /\ call'[c].feedbackId = call[c].feedbackId
  PROVE  OwnLinks'
  <1>1. call[c] # Idle /\ call[c].phase = s
    BY DEF InPhase
  <1>2. "feedback" \in Sinks /\ "inspection" \in Sinks
    BY DEF Sinks
  <1>3. \A t \in Sinks : \A k \in Readable(sink'[t]) :
          \/ k \in Readable(sink[t]) /\ sink'[t].lines[k] = sink[t].lines[k]
          \/ /\ t = s /\ k = Len(sink[s].lines) + 1
             /\ sink'[t].lines[k] = EntryFor(c, s)
    BY LinesAfterAppend DEF SinkInv
  <1>4. /\ EntryFor(c, s).id = call[c].id
        /\ s = "inspection" => /\ EntryFor(c, s).feedbackEmitted = call[c].emitted
                               /\ EntryFor(c, s).feedbackId = call[c].feedbackId
    BY DEF EntryFor
  <1>5. ASSUME NEW x \in Found'
        PROVE  x \in Found \/ (s = "feedback" /\ x = call[c].id)
    <2>1. PICK k \in Readable(sink'["feedback"]) : x = sink'["feedback"].lines[k].id
      BY <1>5 DEF Found
    <2>2. QED
      BY <1>2, <1>3, <1>4, <2>1 DEF Found
  <1>6. \A d \in Callers \ {c} : call[d] # Idle => call[d].id # call[c].id
    BY <1>1 DEF SinkInv, IdsApart
  <1>7. ASSUME NEW d \in Callers, call'[d] # Idle, call'[d].emitted \/ call'[d].id \in Found'
        PROVE  call'[d].feedbackId = call'[d].id
    <2>1. CASE d # c
      BY <1>5, <1>6, <1>7, <2>1 DEF OwnLinks
    <2>2. CASE d = c
      BY <1>1, <1>5, <1>7, <2>2 DEF OwnLinks
    <2>3. QED
      BY <2>1, <2>2
  <1>8. ASSUME NEW i \in Readable(sink'["inspection"]),
               \/ sink'["inspection"].lines[i].feedbackEmitted
               \/ sink'["inspection"].lines[i].id \in Found'
        PROVE  sink'["inspection"].lines[i].feedbackId = sink'["inspection"].lines[i].id
    <2>1. CASE /\ i \in Readable(sink["inspection"])
               /\ sink'["inspection"].lines[i] = sink["inspection"].lines[i]
      <3>1. s = "feedback" => sink["inspection"].lines[i].id # call[c].id
        <4>1. ~(Rank("feedback") > Rank("inspection"))
          BY DEF Rank
        <4>2. QED
          BY <1>1, <1>2, <2>1, <4>1 DEF SinkInv, LinesKnown
      <3>2. QED
        BY <1>5, <1>8, <2>1, <3>1 DEF OwnLinks
    <2>2. CASE s = "inspection" /\ sink'["inspection"].lines[i] = EntryFor(c, s)
      BY <1>1, <1>4, <1>5, <1>8, <2>2 DEF OwnLinks
    <2>3. QED
      BY <1>2, <1>3, <2>1, <2>2
  <1>9. QED
    BY <1>7, <1>8 DEF OwnLinks

\* A call that begins has an id that no record has.
LEMMA BeginsUnrecorded ==
  ASSUME SinkInv, NEW c \in Callers, Begin(c)
  PROVE  ~call'[c].emitted /\ call'[c].id \notin Found
  <1>1. calls \in Nat /\ ~call'[c].emitted /\ call'[c].id = calls + 1
    BY DEF Begin, SinkInv, VerdictInv, TypeOK
  <1>2. \A i \in Readable(sink["feedback"]) :
          sink["feedback"].lines[i].id \in Nat /\ sink["feedback"].lines[i].id <= calls
    BY LineTypes DEF SinkInv, VerdictInv, LinesKnown, Sinks
  <1>3. QED
    BY <1>1, <1>2 DEF Found

\* Every step keeps the links own.
LEMMA NextKeepsOwnLinks == SinkInv /\ OwnLinks /\ [Next]_vars => OwnLinks'
  <1> SUFFICES ASSUME SinkInv, OwnLinks, [Next]_vars
               PROVE  OwnLinks'
    OBVIOUS
  <1>1. call \in [Callers -> Calls \cup {Idle}]
    BY DEF SinkInv, VerdictInv, TypeOK
  <1>2. CASE UNCHANGED vars
    BY <1>2, StayingKeepsOwnLinks DEF vars
  <1>3. ASSUME NEW c \in Callers, Begin(c)
        PROVE  OwnLinks'
    <2>1. sink' = sink /\ \A d \in Callers \ {c} : call'[d] = call[d]
      BY <1>1, <1>3 DEF Begin
    <2>2. QED
      BY <1>3, <2>1, BeginsUnrecorded, StayingKeepsOwnLinks
  <1>4. ASSUME NEW c \in Callers, Retry(c) \/ Conclude(c)
        PROVE  OwnLinks'
    <2>1. call[c] # Idle /\ call[c] \in Calls /\ sink' = sink
      BY <1>1, <1>4 DEF Retry, Conclude, InPhase
    <2>2. /\ \A d \in Callers \ {c} : call'[d] = call[d]
          /\ call'[c].emitted = call[c].emitted /\ call'[c].id = call[c].id
          /\ call'[c].feedbackId = call[c].feedbackId
      BY <1>1, <1>4, <2>1 DEF Retry, Conclude, Calls
    <2>3. QED
      BY <2>1, <2>2, StayingKeepsOwnLinks
  <1>5. ASSUME NEW c \in Callers, NEW s \in Sinks, Emit(c, s)
        PROVE  OwnLinks'
    <2>1. InPhase(c, s) /\ call[c] # Idle /\ call[c] \in Calls
      BY <1>1, <1>5 DEF Emit, InPhase
    <2>2. PICK written \in BOOLEAN :
            call' = [call EXCEPT ![c].phase = Onward(c, s, written),
                                 ![c].emitted = Emitted(c, s, written),
                                 ![c].feedbackId = FeedbackId(c, s)]
      BY <1>5 DEF Emit
    <2>3. PICK log \in FailedAppends(sink[s], EntryFor(c, s)) :
            sink' = [sink EXCEPT ![s] = log]
      BY <1>5, EmitAppends
    <2>4. /\ \A d \in Callers \ {c} : call'[d] = call[d]
          /\ call'[c].id = call[c].id
          /\ call'[c].emitted = Emitted(c, s, written)
          /\ call'[c].feedbackId = FeedbackId(c, s)
      BY <1>1, <2>1, <2>2 DEF Calls
    <2>5. /\ s = "feedback" => call'[c].feedbackId = call[c].id
          /\ s # "feedback" => /\ call'[c].emitted = call[c].emitted
                               /\ call'[c].feedbackId = call[c].feedbackId
      BY <2>1, <2>4 DEF Emitted, FeedbackId, Calls
    <2>6. QED
      BY <2>1, <2>3, <2>4, <2>5, AppendKeepsOwnLinks
  <1>6. ASSUME NEW c \in Callers, Return(c) \/ (Crash(c) /\ sink' = sink)
        PROVE  OwnLinks'
    <2>1. sink' = sink /\ call'[c] = Idle /\ \A d \in Callers \ {c} : call'[d] = call[d]
      BY <1>1, <1>6 DEF Return, Crash
    <2>2. QED
      BY <2>1, StayingKeepsOwnLinks
  <1>7. ASSUME NEW c \in Callers, Crash(c), sink' # sink
        PROVE  OwnLinks'
    <2>1. PICK s \in Sinks : /\ call[c].phase = s
                            /\ \E log \in FailedAppends(sink[s], EntryFor(c, s)) :
                                 sink' = [sink EXCEPT ![s] = log]
      BY <1>7 DEF Crash
    <2>2. /\ InPhase(c, s) /\ call'[c] = Idle
          /\ \A d \in Callers \ {c} : call'[d] = call[d]
      BY <1>1, <1>7, <2>1 DEF Crash, InPhase
    <2>3. PICK log \in FailedAppends(sink[s], EntryFor(c, s)) : sink' = [sink EXCEPT ![s] = log]
      BY <2>1
    <2>4. QED
      BY <2>2, <2>3, AppendKeepsOwnLinks
  <1>8. QED
    BY <1>2, <1>3, <1>4, <1>5, <1>6, <1>7 DEF Next, Step

\* feedback_tensor.feedback_id of an inspection entry: of those that say emitted, no
\* more lead nowhere than the FeedbackTensor file has lines that cannot be read; and a
\* record that is in the file is linked to by the entry of its call, however many
\* appends of however many processes fail.
THEOREM LinksAreKept == Spec => []LinksResolve
  <1>1. Init => SinkInv /\ LinkInv /\ OwnLinks
    BY InitSinks, InitLinks, InitOwnLinks
  <1>2. SinkInv /\ LinkInv /\ OwnLinks /\ [Next]_vars => (SinkInv /\ LinkInv /\ OwnLinks)'
    BY NextKeepsSinks, NextKeepsLinks, NextKeepsOwnLinks
  <1>3. SinkInv /\ LinkInv /\ OwnLinks => LinksResolve
    <2> SUFFICES ASSUME SinkInv, LinkInv, OwnLinks
                 PROVE  LinksResolve
      OBVIOUS
    <2>1. IdsIn("feedback") = Found
      BY DEF IdsIn, Said, Found
    <2>2. Promised \subseteq Claimed
      BY DEF Promised, Said, Claimed, OwnLinks
    <2>3. \A e \in Said("inspection"), f \in Said("feedback") :
            e.id = f.id => e.feedbackId = f.id
      BY DEF Said, Found, OwnLinks
    <2>4. /\ IsFiniteSet(Lost) /\ Cardinality(Lost) <= Cardinality(GarbledLines("feedback"))
          /\ Promised \ Found \subseteq Lost
      BY <2>2 DEF LinkInv, Lost, Acked
    <2>5. IsFiniteSet(GarbledLines("feedback"))
      BY GarbledAreFinite DEF SinkInv, VerdictInv, Sinks
    <2>6. Cardinality(Promised \ Found) <= Cardinality(GarbledLines("feedback"))
      BY <2>4, <2>5, LostCounted
    <2>7. QED
      BY <2>1, <2>3, <2>6 DEF LinksResolve
  <1>4. QED
    BY <1>1, <1>2, <1>3, PTL DEF Spec
=============================================================================
