-------------------------- MODULE ContinuationGate --------------------------
(* evaluateContinuationGate: the decision on a verification contract, a      *)
(* policy profile, the results of checks and the FeedbackTensor fields that  *)
(* are there.  Constant-level; RuntimeRun calls it.                          *)
EXTENDS Integers, FiniteSets, Sequences

CONSTANTS
  Null,         \* an optional input that is not given
  Checks,       \* checks, each a kind (test, static_analysis) and an id
  Assertions,   \* policy assertions, each a path and the value expected there
  Fields        \* sections of a FeedbackTensor

\* A ratio in [0, 1], as a numerator and a denominator.
Ratios == {r \in [num : Nat, den : Nat \ {0}] : r.num <= r.den}

ContractType ==
  [required : SUBSET Checks,        \* requirements with required: true
   assertions : SUBSET Assertions,  \* policy assertions with required: true
   optional : SUBSET Assertions,    \* the other policy assertions
   requireAll : BOOLEAN, minimum : Ratios, maxWarnings : Nat,
   onFailure : {"escalate", "stop"}, requireProfile : BOOLEAN,
   fields : SUBSET Fields]

\* A profile is the assertions it satisfies; results are in the order listed.
CheckResult  == [check : Checks, passed : BOOLEAN]
StatusType   == [results : Seq(CheckResult), warnings : Nat]
EvidenceType ==
  [contract : ContractType,
   profile  : (SUBSET Assertions) \cup {Null},
   status   : StatusType \cup {Null},
   feedback : (SUBSET Fields) \cup {Null}]

ASSUME GateAssumption ==
  /\ IsFiniteSet(Checks)
  /\ IsFiniteSet(Assertions)
  /\ \A s \in SUBSET Assertions : s # Null
  /\ \A s \in SUBSET Fields : s # Null
  /\ Null \notin StatusType

GateReasons ==
  {"FEEDBACK_MISSING", "POLICY_PROFILE_REQUIRED", "STATUS_MISSING",
   "CHECK_RESULT_MISSING", "POLICY_ASSERTION_FAILED", "BELOW_THRESHOLD",
   "WARNING_LIMIT_EXCEEDED", "GATE_PASSED", "GATE_NOT_CONFIGURED"}
GateDecisions ==
  [decision : {"continue", "escalate", "stop"}, reason : GateReasons]

GateDecision(d, r) == [decision |-> d, reason |-> r]
Bypass             == GateDecision("continue", "GATE_NOT_CONFIGURED")

-----------------------------------------------------------------------------
MissingFields(e) ==
  IF e.feedback = Null THEN e.contract.fields
                       ELSE e.contract.fields \ e.feedback

Enforced(contract) ==
  IF contract.requireAll THEN contract.assertions \cup contract.optional
                         ELSE contract.assertions

\* The results are indexed by check: of several results the last one stays.
Reported(results) == {results[i].check : i \in DOMAIN results}
Passed(results) ==
  {c \in Checks : \E i \in DOMAIN results :
                    /\ results[i].check = c /\ results[i].passed
                    /\ \A j \in DOMAIN results : j > i => results[j].check # c}

\* Required checks and required assertions are counted together.
RequiredTotal(contract) ==
  Cardinality(contract.required) + Cardinality(contract.assertions)
RequiredPassed(e) ==
  Cardinality(e.contract.required \cap Passed(e.status.results))
    + Cardinality(IF e.profile = Null THEN {}
                                      ELSE e.contract.assertions \cap e.profile)

\* Mutant: the ratio is of the results that are listed.
BelowOfListed(e) ==
  RequiredPassed(e) * e.contract.minimum.den
    < e.contract.minimum.num
        * (Len(e.status.results) + Cardinality(e.contract.assertions))

\* The ratio of nothing required is 1, which is below no minimum.
BelowThreshold(e) ==
  RequiredPassed(e) * e.contract.minimum.den
    < e.contract.minimum.num * RequiredTotal(e.contract)

\* The first reason not to continue, in the order of the checks.
Gate(e) ==
  LET fails(reason) == GateDecision(e.contract.onFailure, reason)
  IN IF MissingFields(e) # {} THEN fails("FEEDBACK_MISSING")
     ELSE IF e.profile = Null /\ (e.contract.requireProfile \/ Enforced(e.contract) # {})
     THEN fails("POLICY_PROFILE_REQUIRED")
     ELSE IF e.status = Null THEN fails("STATUS_MISSING")
     ELSE IF ~(e.contract.required \subseteq Reported(e.status.results))
     THEN fails("CHECK_RESULT_MISSING")
     ELSE IF e.profile # Null /\ ~(Enforced(e.contract) \subseteq e.profile)
     THEN fails("POLICY_ASSERTION_FAILED")
     ELSE IF BelowThreshold(e) THEN fails("BELOW_THRESHOLD")
     ELSE IF e.status.warnings > e.contract.maxWarnings
     THEN fails("WARNING_LIMIT_EXCEEDED")
     ELSE GateDecision("continue", "GATE_PASSED")
=============================================================================
