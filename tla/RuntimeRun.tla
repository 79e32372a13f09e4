----------------------------- MODULE RuntimeRun -----------------------------
(* runSemanticIr: validation of the IR, the continuation gate, the result or *)
(* the error of the invocation, and in the finally block the emissions to    *)
(* the trace ledger, FeedbackTensor, inspection and report files, to which   *)
(* other invocations of other processes append as well.                      *)
EXTENDS ContinuationGate, Telemetry

CONSTANTS
  Callers,      \* processes
  Invocations,  \* the arguments and output paths that each caller hands in
  MaxCalls      \* bound: invocations of a behaviour

Irs == {"valid", "no_object", "no_version", "no_goal"}

\* A gate that is configured with something other than a contract throws.
Gates     == {"absent", "given", "malformed"}
InputType ==
  [ir : Irs, gate : Gates, evidence : EvidenceType \cup {Null}]

Sinks      == {"ledger", "feedback", "inspection", "report"}
OptionType == [Sinks -> BOOLEAN]

InvocationCodes ==
  {"none", "SEMANTIC_IR_INPUT_INVALID", "SEMANTIC_IR_VERSION_REQUIRED",
   "SEMANTIC_IR_GOAL_REQUIRED", "TypeError"} \cup GateReasons
FailureClasses ==
  {"none", "schema_contract", "policy_gate", "deterministic_runtime"}

\* What an invocation comes to, and the last decision of its gate.
Outcomes == [code : InvocationCodes, class : FailureClasses, gate : GateDecisions]
Succeeded(o) == o.code = "none"

LedgerEntries     == [id : Nat, ok : BOOLEAN]
FeedbackEntries   == [id : Nat, code : InvocationCodes \ {"none"},
                      class : FailureClasses \ {"none"}, traced : BOOLEAN]
InspectionEntries == [id : Nat, ok : BOOLEAN, code : InvocationCodes,
                      gate : GateDecisions, traced : BOOLEAN,
                      feedback : BOOLEAN, feedbackId : Nat \cup {Null},
                      feedbackTraced : BOOLEAN]
EntriesOf(s) ==
  IF s = "ledger" THEN LedgerEntries
  ELSE IF s = "feedback" THEN FeedbackEntries ELSE InspectionEntries

Inputs == UNION {{v.input : v \in Invocations[c]} : c \in Callers}

Phases == {"evaluate", "return"} \cup Sinks
Idle   == Null
Calls  ==
  [phase : Phases, id : Nat, input : Inputs, options : OptionType,
   outcome : Outcomes \cup {Null}, traced : BOOLEAN,
   feedback : BOOLEAN, feedbackId : Nat \cup {Null}]

ASSUME InputAssumption ==
  \A c \in Callers : \A v \in Invocations[c] :
    /\ v \in [input : InputType, options : OptionType]
    /\ v.input.gate = "given" <=> v.input.evidence # Null
ASSUME NullAssumption ==
  /\ Null \notin Calls
  /\ Null \notin Outcomes
  /\ Null \notin EvidenceType
ASSUME MaxCallsAssumption == MaxCalls \in Nat

VARIABLES
  call,       \* what each caller is doing
  sink,       \* the files
  calls,      \* how many invocations have begun; the last one's id
  returned    \* what callers got: a result or an error, by id

vars == <<call, sink, calls, returned>>

-----------------------------------------------------------------------------
Init ==
  /\ call = [c \in Callers |-> Idle]
  /\ sink = [s \in Sinks |-> EmptyLog]
  /\ calls = 0
  /\ returned = {}

InPhase(c, p) == call[c] # Idle /\ call[c].phase = p

Begin(c) ==
  /\ call[c] = Idle
  /\ calls < MaxCalls
  /\ calls' = calls + 1
  /\ \E v \in Invocations[c] :
       call' = [call EXCEPT ![c] =
                  [phase |-> "evaluate", id |-> calls', input |-> v.input,
                   options |-> v.options, outcome |-> Null,
                   traced |-> FALSE, feedback |-> FALSE, feedbackId |-> Null]]
  /\ UNCHANGED <<sink, returned>>

\* Where validation or the gate throws, the decision is still that of a gate
\* which is not configured.
Failed(code, class, gate) == [code |-> code, class |-> class, gate |-> gate]
Success(gate)             == Failed("none", "none", gate)

ClassOf(reason) ==
  IF reason \in {"POLICY_PROFILE_REQUIRED", "POLICY_ASSERTION_FAILED"}
  THEN "policy_gate" ELSE "deterministic_runtime"

\* Mutant: only a decision to stop blocks.
GatedIfStopped(gate) ==
  IF gate.decision # "stop" THEN Success(gate)
  ELSE Failed(gate.reason, ClassOf(gate.reason), gate)

Gated(gate) ==
  IF gate.decision = "continue" THEN Success(gate)
  ELSE Failed(gate.reason, ClassOf(gate.reason), gate)

Outcome(input) ==
  IF input.ir = "no_object"
  THEN Failed("SEMANTIC_IR_INPUT_INVALID", "schema_contract", Bypass)
  ELSE IF input.ir = "no_version"
  THEN Failed("SEMANTIC_IR_VERSION_REQUIRED", "schema_contract", Bypass)
  ELSE IF input.ir = "no_goal"
  THEN Failed("SEMANTIC_IR_GOAL_REQUIRED", "schema_contract", Bypass)
  ELSE IF input.gate = "malformed"
  THEN Failed("TypeError", "deterministic_runtime", Bypass)
  ELSE IF input.gate = "absent" THEN Success(Bypass)
  ELSE Gated(Gate(input.evidence))

\* The emissions that are configured follow in this order; FeedbackTensor only
\* for a failure.
AfterInspection(options)  == IF options["report"] THEN "report" ELSE "return"
AfterFeedback(options)    ==
  IF options["inspection"] THEN "inspection" ELSE AfterInspection(options)
\* Mutant: every invocation leaves a FeedbackTensor record.
AfterLedgerAlways(options, o) ==
  IF options["feedback"] THEN "feedback" ELSE AfterFeedback(options)
AfterLedger(options, o)   ==
  IF options["feedback"] /\ ~Succeeded(o) THEN "feedback" ELSE AfterFeedback(options)

\* Mutant: an invocation with no ledger goes nowhere.
AfterEvaluateWithLedger(options, o) ==
  IF options["ledger"] THEN "ledger" ELSE "evaluate"
AfterEvaluate(options, o) ==
  IF options["ledger"] THEN "ledger" ELSE AfterLedger(options, o)

After(s, options, o) ==
  IF s = "ledger" THEN AfterLedger(options, o)
  ELSE IF s = "feedback" THEN AfterFeedback(options)
  ELSE IF s = "inspection" THEN AfterInspection(options)
  ELSE "return"

Evaluate(c) ==
  /\ InPhase(c, "evaluate")
  /\ LET o == Outcome(call[c].input)
     IN call' = [call EXCEPT ![c].outcome = o,
                             ![c].phase = AfterEvaluate(call[c].options, o)]
  /\ UNCHANGED <<sink, calls, returned>>

EntryFor(c, s) ==
  LET o == call[c].outcome
  IN IF s = "ledger" THEN [id |-> call[c].id, ok |-> Succeeded(o)]
     ELSE IF s = "feedback"
     THEN [id |-> call[c].id, code |-> o.code, class |-> o.class,
           traced |-> call[c].traced]
     ELSE [id |-> call[c].id, ok |-> Succeeded(o), code |-> o.code,
           gate |-> o.gate, traced |-> call[c].traced,
           feedback |-> call[c].feedback, feedbackId |-> call[c].feedbackId,
           feedbackTraced |-> call[c].traced /\ call[c].feedbackId # Null]

\* Mutants: the ledger is taken for written; a failed append is tried again;
\* an append that fails takes the result along.
TracedAnyway(c, s, written)    == call[c].traced \/ s = "ledger"
OnwardIfWritten(c, s, written) ==
  IF written THEN After(s, call[c].options, call[c].outcome) ELSE s
OutcomeIfWritten(c, s, written) ==
  IF written THEN call[c].outcome
  ELSE Failed("TypeError", "deterministic_runtime", Bypass)

\* Mutant: the link is kept only where the append is known to be done.
FeedbackIdIfWritten(c, s, written) ==
  IF s = "feedback" /\ written THEN call[c].id ELSE call[c].feedbackId

\* What an invocation remembers of an append, and where it goes on.  It keeps the
\* id of its FeedbackTensor record also where the append failed.
Traced(c, s, written)        == call[c].traced \/ (s = "ledger" /\ written)
FeedbackKept(c, s, written)  == call[c].feedback \/ (s = "feedback" /\ written)
FeedbackId(c, s, written)    ==
  IF s = "feedback" THEN call[c].id ELSE call[c].feedbackId
Onward(c, s, written)        == After(s, call[c].options, call[c].outcome)
OutcomeAfter(c, s, written)  == call[c].outcome

Emit(c, s) ==
  /\ InPhase(c, s)
  /\ \E written \in BOOLEAN :
       /\ \E log \in IF written THEN {Appended(sink[s], EntryFor(c, s))}
                                ELSE FailedAppends(sink[s], EntryFor(c, s)) :
            sink' = [sink EXCEPT ![s] = log]
       /\ call' = [call EXCEPT ![c].phase = Onward(c, s, written),
                               ![c].traced = Traced(c, s, written),
                               ![c].feedback = FeedbackKept(c, s, written),
                               ![c].feedbackId = FeedbackId(c, s, written),
                               ![c].outcome = OutcomeAfter(c, s, written)]
  /\ UNCHANGED <<calls, returned>>

Return(c) ==
  /\ InPhase(c, "return")
  /\ returned' = returned \cup {[id |-> call[c].id, input |-> call[c].input,
                                 outcome |-> call[c].outcome]}
  /\ call' = [call EXCEPT ![c] = Idle]
  /\ UNCHANGED <<sink, calls>>

\* The process dies, in the middle of an append or not.
Crash(c) ==
  /\ call[c] # Idle
  /\ call' = [call EXCEPT ![c] = Idle]
  /\ \/ sink' = sink
     \/ \E s \in Sinks :
          /\ call[c].phase = s
          /\ \E log \in FailedAppends(sink[s], EntryFor(c, s)) :
               sink' = [sink EXCEPT ![s] = log]
  /\ UNCHANGED <<calls, returned>>

Step(c) ==
  \/ Evaluate(c)
  \/ \E s \in Sinks : Emit(c, s)
  \/ Return(c)

Next == \E c \in Callers : Begin(c) \/ Step(c) \/ Crash(c)

Spec == Init /\ [][Next]_vars

FairSpec == Spec /\ \A c \in Callers : WF_vars(Step(c))

-----------------------------------------------------------------------------
\* Invocations, outcomes and files keep their types.
TypeOK ==
  /\ call \in [Callers -> Calls \cup {Idle}]
  /\ sink = [s \in Sinks |-> sink[s]]
  /\ \A s \in Sinks : sink[s] \in LogOf(EntriesOf(s))
  /\ calls \in Nat
  /\ returned \subseteq [id : Nat, input : Inputs, outcome : Outcomes]

Said(s)    == {sink[s].lines[i] : i \in Readable(sink[s])}
Garbles(s) == DOMAIN sink[s].lines \ Readable(sink[s])

SaidOk(s, entry) == IF s = "feedback" THEN FALSE ELSE entry.ok

\* No file holds two readable records of one invocation, however its appends
\* failed, and what the files say of it, success or failure, is what the other
\* files say and what its caller got.
RecordsTellOutcome ==
  \A s, t \in Sinks : \A i \in Readable(sink[s]), j \in Readable(sink[t]) :
    LET e == sink[s].lines[i]
        f == sink[t].lines[j]
    IN e.id = f.id =>
         /\ s = t => i = j
         /\ SaidOk(s, e) = SaidOk(t, f)
         /\ \A r \in returned : r.id = e.id => SaidOk(s, e) = Succeeded(r.outcome)

IdsIn(s)      == {e.id : e \in Said(s)}
TraceLinks    ==
  {e.id : e \in {e \in Said("feedback") \cup Said("inspection") : e.traced}}
FeedbackLinks ==
  {e.feedbackId : e \in {e \in Said("inspection") : e.feedbackId # Null}}
\* The links of the inspection entries that say emitted.
Promised      == {e.feedbackId : e \in {e \in Said("inspection") : e.feedback}}

\* runtime/README.md: "trace_entry_id is populated only when trace-ledger append
\* succeeds", and so it links to a ledger record that is there.  A link to a
\* FeedbackTensor record (feedback_tensor.feedback_id) does where its entry says
\* emitted.  Both but for records that were glued to the piece of a torn one.  And
\* a FeedbackTensor record is linked to by the inspection entry of its invocation,
\* whether its append was taken for done or not.
LinksResolve ==
  /\ Cardinality(TraceLinks \ IdsIn("ledger")) <= Cardinality(Garbles("ledger"))
  /\ Cardinality(Promised \ IdsIn("feedback")) <= Cardinality(Garbles("feedback"))
  /\ \A e \in Said("inspection"), f \in Said("feedback") :
       e.id = f.id => e.feedbackId = f.id

\* docs/spec/trace-ledger-v0.md: "Inspection entries link the runtime invocation
\* across: ... FeedbackTensor linkage: feedback_tensor.feedback_id".  Every such link
\* leads to a record, but for those that were glued to the piece of a torn one.
EveryLinkResolves ==
  Cardinality(FeedbackLinks \ IdsIn("feedback")) <= Cardinality(Garbles("feedback"))

\* What the results of a check come to: nothing, or what the last one says.
LastSays(results, c, verdict) ==
  \E i \in DOMAIN results :
    /\ results[i].check = c /\ results[i].passed = verdict
    /\ \A j \in DOMAIN results : results[j].check = c => j <= i

\* The evidence f is at least as good as e: nothing that e has is missing, no
\* check that passed in the end fails in the end, no warning was added.
AtLeastAsGood(e, f) ==
  /\ e.contract = f.contract
  /\ e.feedback # Null => f.feedback # Null /\ e.feedback \subseteq f.feedback
  /\ e.profile # Null => f.profile # Null /\ e.profile \subseteq f.profile
  /\ e.status # Null =>
       /\ f.status # Null
       /\ f.status.warnings <= e.status.warnings
       /\ \A c \in e.contract.required :
            /\ LastSays(e.status.results, c, TRUE) => LastSays(f.status.results, c, TRUE)
            /\ LastSays(e.status.results, c, FALSE) =>
                 \E verdict \in BOOLEAN : LastSays(f.status.results, c, verdict)

GatedWith(r, e) == r.input.gate = "given" /\ r.input.evidence = e

\* An invocation that was let through is let through again on the same evidence,
\* on evidence that lists other results before those that count, and on better
\* evidence: collecting more of it never blocks a caller that passed.
MoreEvidenceNeverBlocks ==
  \A r, q \in returned :
    /\ r.input.gate = "given" /\ q.input.gate = "given"
    /\ r.input.ir = "valid" /\ q.input.ir = "valid"
    /\ AtLeastAsGood(r.input.evidence, q.input.evidence)
    /\ Succeeded(r.outcome)
    => Succeeded(q.outcome)

Unmet(e) ==
  {c \in e.contract.required : ~LastSays(e.status.results, c, TRUE)}

\* The assertions a contract asks for: those that are not required only if it says all.
Asked(k) == k.assertions \cup {a \in k.optional : k.requireAll}

\* verificationcontract-v1.md: missing evidence must "block autonomous
\* continuation".  An invocation that succeeds under a gate has every section, a
\* policy profile that satisfies every assertion asked for, a result of every
\* required check, no more of them without a pass than the minimum ratio leaves,
\* and no more warnings than allowed.
ContinuedIsVerified ==
  \A r \in returned : Succeeded(r.outcome) /\ r.input.gate = "given" =>
    LET e == r.input.evidence
        k == e.contract
    IN /\ r.input.ir = "valid"
       /\ k.fields # {} => e.feedback # Null /\ k.fields \subseteq e.feedback
       /\ k.requireProfile \/ Asked(k) # {} =>
            e.profile # Null /\ Asked(k) \subseteq e.profile
       /\ e.status # Null
       /\ \A c \in k.required : \E v \in BOOLEAN : LastSays(e.status.results, c, v)
       /\ Cardinality(Unmet(e)) * k.minimum.den
            <= (k.minimum.den - k.minimum.num) * RequiredTotal(k)
       /\ e.status.warnings <= k.maxWarnings

\* "Best-effort so trace I/O failures do not alter invocation outcomes": with all
\* its emissions and their failures, the runtime is one that emits nothing.
Under == {c \in Callers : call[c] # Idle}
Pure  == INSTANCE PureRun WITH
           AnswerTo <- [i \in Inputs |-> Outcome(i)],
           begun    <- calls,
           pending  <- {[id |-> call[c].id, input |-> call[c].input] : c \in Under},
           answered <- returned

\* The runtime implements PureRun.
ImplementsPureRun == Pure!Spec

\* Every invocation ends: it returns or throws, or its process dies.
CallsEnd == \A c \in Callers : call[c] # Idle ~> call[c] = Idle
=============================================================================
