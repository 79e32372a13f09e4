----------------------------- MODULE RepairLoop -----------------------------
(* runRuleFirstRepairLoop: attempts over the rules of the failure's class,   *)
(* one result, and its emission to the FeedbackTensor, inspection and report *)
(* files, which other calls of other processes append to as well.            *)
EXTENDS RepairRules, Telemetry

CONSTANTS
  Callers,       \* processes
  Inputs,        \* the failures and options that each caller hands in
  MaxCalls       \* bound: calls of a behaviour

DEFAULT_MAX_ATTEMPTS  == 2
ABSOLUTE_MAX_ATTEMPTS == 10

OptionType ==
  [maxAttempts : {Null} \cup 1..ABSOLUTE_MAX_ATTEMPTS,
   feedback : BOOLEAN, inspection : BOOLEAN, report : BOOLEAN,
   traceEntryId : BOOLEAN]

Limit(options) ==
  IF options.maxAttempts = Null THEN DEFAULT_MAX_ATTEMPTS
                                ELSE options.maxAttempts

Decisions == {"repaired", "escalate", "stop"}
Reasons   == {"MAX_ATTEMPTS_EXCEEDED", "NO_SAFE_DETERMINISTIC_REPAIR", "of_the_rule"}
Records   == [attempt : 1..ABSOLUTE_MAX_ATTEMPTS, rule : RuleIndices,
              outcome : Outcomes]
Results   ==
  [failure : FailureType, maxAttempts : 1..ABSOLUTE_MAX_ATTEMPTS,
   decision : Decisions, reason : Reasons,
   attempts : 1..ABSOLUTE_MAX_ATTEMPTS, rule : RuleIndices \cup {Null},
   history : Seq(Records)]

Sinks == {"feedback", "inspection", "report"}

ActionOf(decision) ==
  IF decision = "repaired" THEN "retry_with_patch"
  ELSE IF decision = "escalate" THEN "request_manual_review"
  ELSE "abort"

FeedbackEntries   == [id : Nat, decision : Decisions,
                      action : {"retry_with_patch", "request_manual_review", "abort"}]
InspectionEntries == [id : Nat, decision : Decisions, success : BOOLEAN,
                      attempts : 1..ABSOLUTE_MAX_ATTEMPTS,
                      ledgerEmitted : BOOLEAN, feedbackEmitted : BOOLEAN,
                      feedbackId : Nat \cup {Null}]
EntriesOf(s) == IF s = "feedback" THEN FeedbackEntries ELSE InspectionEntries

Phases == {"attempt", "return"} \cup Sinks
Idle   == Null
Calls  ==
  [phase : Phases, id : Nat, failure : FailureType, options : OptionType,
   attempt : 1..ABSOLUTE_MAX_ATTEMPTS, history : Seq(Records),
   result : Results \cup {Null}, emitted : BOOLEAN,
   feedbackId : Nat \cup {Null}]

\* Failures and options are what the input checks let through.
ASSUME InputAssumption ==
  \A c \in Callers : Inputs[c] \subseteq [failure : FailureType, options : OptionType]
ASSUME NullAssumption ==
  /\ Null \notin Calls
  /\ Null \notin Results
  /\ Null \notin 1..ABSOLUTE_MAX_ATTEMPTS
  /\ Null \notin RuleIndices
ASSUME MaxCallsAssumption == MaxCalls \in Nat

VARIABLES
  call,       \* what each caller is doing
  sink,       \* the files
  calls,      \* how many calls have begun; the last one's id
  returned    \* the results that callers got, by id

vars == <<call, sink, calls, returned>>

-----------------------------------------------------------------------------
Init ==
  /\ call = [c \in Callers |-> Idle]
  /\ sink = [s \in Sinks |-> EmptyLog]
  /\ calls = 0
  /\ returned = {}

InPhase(c, p) == call[c] # Idle /\ call[c].phase = p

\* The emissions that are configured follow in this order.
AfterInspection(options) == IF options.report THEN "report" ELSE "return"
AfterFeedback(options)   == IF options.inspection THEN "inspection"
                                                  ELSE AfterInspection(options)
AfterAttempts(options)   == IF options.feedback THEN "feedback"
                                                ELSE AfterFeedback(options)
After(s, options) ==
  IF s = "feedback" THEN AfterFeedback(options)
  ELSE IF s = "inspection" THEN AfterInspection(options)
  ELSE "return"

Begin(c) ==
  /\ call[c] = Idle
  /\ calls < MaxCalls
  /\ calls' = calls + 1
  /\ \E i \in Inputs[c] :
       call' = [call EXCEPT ![c] =
                  [phase |-> "attempt", id |-> calls', failure |-> i.failure,
                   options |-> i.options, attempt |-> 1, history |-> <<>>,
                   result |-> Null, emitted |-> FALSE, feedbackId |-> Null]]
  /\ UNCHANGED <<sink, returned>>

\* The excerpt is the same in every attempt: no rule rewrites it.
Matched(c)  == Matching(call[c].failure) # {}
Outcome(c)  == Apply(FirstMatching(call[c].failure), call[c].failure, call[c].attempt)
RecordOf(c) ==
  [attempt |-> call[c].attempt, rule |-> FirstMatching(call[c].failure),
   outcome |-> Outcome(c)]

\* Mutants: retries are not recorded; the limit is noticed one attempt late.
RetriesDropped(c) ==
  IF Outcome(c) = "retry" THEN call[c].history
                          ELSE Append(call[c].history, RecordOf(c))
ExhaustedLate(c) == call[c].attempt > Limit(call[c].options)

Recorded(c)  == Append(call[c].history, RecordOf(c))
Exhausted(c) == call[c].attempt = Limit(call[c].options)

\* Mutant: the next attempt begins before this one is counted.
RetryUncounted(c) ==
  /\ InPhase(c, "attempt")
  /\ Matched(c) /\ Outcome(c) = "retry" /\ ~Exhausted(c)
  /\ UNCHANGED vars

Retry(c) ==
  /\ InPhase(c, "attempt")
  /\ Matched(c)
  /\ Outcome(c) = "retry"
  /\ ~Exhausted(c)
  /\ call' = [call EXCEPT ![c].attempt = @ + 1, ![c].history = Recorded(c)]
  /\ UNCHANGED <<sink, calls, returned>>

ResultOf(c, decision, reason, rule, history) ==
  [failure |-> call[c].failure, maxAttempts |-> Limit(call[c].options),
   decision |-> decision, reason |-> reason, attempts |-> call[c].attempt,
   rule |-> rule, history |-> history]

FinalResult(c) ==
  IF ~Matched(c)
  THEN ResultOf(c, "escalate", "NO_SAFE_DETERMINISTIC_REPAIR", Null, call[c].history)
  ELSE IF Outcome(c) = "retry"
  THEN ResultOf(c, "stop", "MAX_ATTEMPTS_EXCEEDED",
                FirstMatching(call[c].failure), Recorded(c))
  ELSE ResultOf(c, Outcome(c), "of_the_rule",
                FirstMatching(call[c].failure), Recorded(c))

Conclude(c) ==
  /\ InPhase(c, "attempt")
  /\ Matched(c) /\ Outcome(c) = "retry" => Exhausted(c)
  /\ call' = [call EXCEPT ![c].phase = AfterAttempts(call[c].options),
                          ![c].result = FinalResult(c)]
  /\ UNCHANGED <<sink, calls, returned>>

EntryFor(c, s) ==
  LET r == call[c].result
  IN IF s = "feedback"
     THEN [id |-> call[c].id, decision |-> r.decision, action |-> ActionOf(r.decision)]
     ELSE [id |-> call[c].id, decision |-> r.decision,
           success |-> r.decision = "repaired", attempts |-> r.attempts,
           ledgerEmitted |-> call[c].options.traceEntryId,
           feedbackEmitted |-> call[c].emitted,
           feedbackId |-> call[c].feedbackId]

\* Mutants: an emission is reported before it is known; a failed one is tried again.
EmittedAnyway(c, s, written) == call[c].emitted \/ s = "feedback"
OnwardIfWritten(c, s, written) ==
  IF written THEN After(s, call[c].options) ELSE s

\* What a call remembers of an append, and where it goes on.  It keeps the id of
\* its FeedbackTensor record also where the append failed.
Emitted(c, s, written) == call[c].emitted \/ (s = "feedback" /\ written)
FeedbackId(c, s)       == IF s = "feedback" THEN call[c].id ELSE call[c].feedbackId
Onward(c, s, written)  == After(s, call[c].options)

Emit(c, s) ==
  /\ InPhase(c, s)
  /\ \E written \in BOOLEAN :
       /\ \E log \in IF written THEN {Appended(sink[s], EntryFor(c, s))}
                                ELSE FailedAppends(sink[s], EntryFor(c, s)) :
            sink' = [sink EXCEPT ![s] = log]
       /\ call' = [call EXCEPT ![c].phase = Onward(c, s, written),
                               ![c].emitted = Emitted(c, s, written),
                               ![c].feedbackId = FeedbackId(c, s)]
  /\ UNCHANGED <<calls, returned>>

Return(c) ==
  /\ InPhase(c, "return")
  /\ returned' = returned \cup {[id |-> call[c].id, result |-> call[c].result]}
  /\ call' = [call EXCEPT ![c] = Idle]
  /\ UNCHANGED <<sink, calls>>

\* The process dies, in the middle of an append or not.
Crash(c) ==
  /\ call[c] # Idle
  /\ call' = [call EXCEPT ![c] = Idle]
  /\ \/ sink' = sink
     \/ \E s \in Sinks : 
          /\ call[c].phase = s
          /\ \E log \in FailedAppends(sink[s], EntryFor(c, s)) :
               sink' = [sink EXCEPT ![s] = log]
  /\ UNCHANGED <<calls, returned>>

Step(c) ==
  \/ Retry(c)
  \/ Conclude(c)
  \/ \E s \in Sinks : Emit(c, s)
  \/ Return(c)

Next == \E c \in Callers : Begin(c) \/ Step(c) \/ Crash(c)

Spec == Init /\ [][Next]_vars

FairSpec == Spec /\ \A c \in Callers : WF_vars(Step(c))

-----------------------------------------------------------------------------
\* Calls, results and files keep their types; no attempt is past the limit of
\* its call.
TypeOK ==
  /\ call \in [Callers -> Calls \cup {Idle}]
  /\ \A c \in Callers : call[c] # Idle => call[c].attempt <= Limit(call[c].options)
  /\ sink = [s \in Sinks |-> sink[s]]
  /\ \A s \in Sinks : sink[s] \in LogOf(EntriesOf(s))
  /\ calls \in Nat
  /\ returned \subseteq [id : Nat, result : Results]

(* What a call should decide, said of the failure and of the limit alone:    *)
(* the outcome of the first attempt that does not ask for another, if there  *)
(* is one within the limit.                                                  *)
OutcomeAt(f, n) == Apply(FirstMatching(f), f, n)

Settling(f, limit) == {n \in 1..limit : OutcomeAt(f, n) # "retry"}

FirstSettling(f, limit) ==
  CHOOSE n \in Settling(f, limit) : \A k \in Settling(f, limit) : n <= k

Attempts(f, limit) ==
  IF Matching(f) = {} THEN 1
  ELSE IF Settling(f, limit) = {} THEN limit
  ELSE FirstSettling(f, limit)

Decision(f, limit) ==
  IF Matching(f) = {} THEN "escalate"
  ELSE IF Settling(f, limit) = {} THEN "stop"
  ELSE OutcomeAt(f, FirstSettling(f, limit))

HistoryOf(f, attempts) ==
  IF Matching(f) = {} THEN <<>>
  ELSE [n \in 1..attempts |->
          [attempt |-> n, rule |-> FirstMatching(f), outcome |-> OutcomeAt(f, n)]]

Explained(r) ==
  /\ r.decision = Decision(r.failure, r.maxAttempts)
  /\ r.attempts = Attempts(r.failure, r.maxAttempts)
  /\ r.history = HistoryOf(r.failure, r.attempts)

\* Whatever is emitted, fails or crashes on the way, every result of a call is
\* the verdict of its failure and its limit, and its history has every attempt.
ResultIsVerdict ==
  /\ \A c \in Callers :
       call[c] # Idle /\ call[c].result # Null => Explained(call[c].result)
  /\ \A r \in returned : Explained(r.result)

\* Each file has at most one readable record of a call, however its appends
\* failed, and the records of a call in all the files say what it returned.
OneOutcomePerCall ==
  \A s, t \in Sinks : \A i \in Readable(sink[s]), j \in Readable(sink[t]) :
    sink[s].lines[i].id = sink[t].lines[j].id =>
      /\ s = t => i = j
      /\ sink[s].lines[i].decision = sink[t].lines[j].decision
      /\ \A r \in returned : 
           r.id = sink[s].lines[i].id =>
             r.result.decision = sink[s].lines[i].decision

Said(s)         == {sink[s].lines[i] : i \in Readable(sink[s])}
IdsIn(s)        == {e.id : e \in Said(s)}
GarbledLines(s) == DOMAIN sink[s].lines \ Readable(sink[s])

\* The links of the inspection entries that say emitted.
Promised == {e.feedbackId : e \in {e \in Said("inspection") : e.feedbackEmitted}}

\* feedback_tensor.feedback_id links an inspection entry to a FeedbackTensor record.
\* Where the entry says that the record was emitted, the record is in its file, but
\* for those that were glued to the piece of a torn one.  And a record that is in
\* the file is linked to by the inspection entry of its call, whether its append
\* was taken for done or not.
LinksResolve ==
  /\ Cardinality(Promised \ IdsIn("feedback")) <= Cardinality(GarbledLines("feedback"))
  /\ \A e \in Said("inspection"), f \in Said("feedback") :
       e.id = f.id => e.feedbackId = f.id

\* Every call ends: it returns, or its process dies.
CallsEnd == \A c \in Callers : call[c] # Idle ~> call[c] = Idle

HardStop(f) == \E i \in Matching(f) : REPAIR_RULES[i].does = "stop"

\* runtime/README.md: "stop: bounded retries exhausted or hard-stop policy/runtime
\* invariants were hit".  A failure that hits a hard stop is never repaired.
HardStopsStop ==
  \A r \in returned : HardStop(r.result.failure) => r.result.decision = "stop"
=============================================================================
