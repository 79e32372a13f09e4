-------------------------- MODULE RuntimeRunProofs --------------------------
(* Theorems about ContinuationGate and RuntimeRun, for every value of their  *)
(* constants: any contracts, evidence, number of processes, failing appends  *)
(* and crashes.                                                              *)
EXTENDS RuntimeRun, TelemetryProofs, WellFoundedInduction

-----------------------------------------------------------------------------
(* Results of checks.                                                        *)

\* Some number of a set of naturals is the least.
LEMMA Smallest ==
  ASSUME NEW T \in SUBSET Nat, T # {}
  PROVE  \E x \in T : \A y \in T : x <= y
  <1> DEFINE R == OpToRel(<, Nat)
  <1>1. IsWellFoundedOn(R, Nat)
    BY NatLessThanWellFounded
  <1>2. \A x, y \in Nat : x < y => <<x, y>> \in R
    BY DEF OpToRel
  <1> HIDE DEF R
  <1>3. PICK x \in T : \A y \in T : ~ (<<y, x>> \in R)
    BY <1>1, WFMin
  <1>4. ASSUME NEW y \in T
        PROVE  x <= y
    <2>1. x \in Nat /\ y \in Nat /\ ~ (<<y, x>> \in R)
      BY <1>3
    <2>2. ~ (y < x)
      BY <1>2, <2>1
    <2>3. QED
      BY <2>1, <2>2
  <1>5. QED
    BY <1>4

\* A check that has results has a last one.
LEMMA ReportedHasLast ==
  ASSUME NEW results \in Seq(CheckResult), NEW c
  PROVE  c \in Reported(results) <=> \E v \in BOOLEAN : LastSays(results, c, v)
  <1>1. /\ Len(results) \in Nat /\ DOMAIN results = 1..Len(results)
        /\ \A i \in DOMAIN results : results[i] \in CheckResult
    OBVIOUS
  <1>2. ASSUME c \in Reported(results)
        PROVE  \E v \in BOOLEAN : LastSays(results, c, v)
    <2> DEFINE T == {Len(results) - i : i \in {k \in DOMAIN results : results[k].check = c}}
    <2>1. T # {}
      BY <1>2 DEF Reported
    <2>2. T \in SUBSET Nat
      BY <1>1
    <2>3. PICK x \in T : \A y \in T : x <= y
      BY <2>1, <2>2, Smallest
    <2>4. PICK i \in DOMAIN results : results[i].check = c /\ x = Len(results) - i
      OBVIOUS
    <2>5. ASSUME NEW j \in DOMAIN results, results[j].check = c
          PROVE  j <= i
      <3>1. Len(results) - j \in T
        BY <2>5
      <3>2. x <= Len(results) - j
        BY <2>3, <3>1
      <3>3. QED
        BY <1>1, <2>4, <2>5, <3>2
    <2>6. results[i].passed \in BOOLEAN
      BY <1>1 DEF CheckResult
    <2>7. QED
      BY <2>4, <2>5, <2>6 DEF LastSays
  <1>3. QED
    BY <1>2 DEF Reported, LastSays

\* A check has passed where its last result says so.
LEMMA PassedIsLast ==
  ASSUME NEW results \in Seq(CheckResult), NEW c \in Checks
  PROVE  c \in Passed(results) <=> LastSays(results, c, TRUE)
  <1>1. /\ Len(results) \in Nat /\ DOMAIN results = 1..Len(results)
        /\ \A i \in DOMAIN results : results[i].passed \in BOOLEAN
    <2>1. /\ Len(results) \in Nat /\ DOMAIN results = 1..Len(results)
          /\ \A i \in DOMAIN results : results[i] \in CheckResult
      OBVIOUS
    <2>2. QED
      BY <2>1 DEF CheckResult
  <1>2. ASSUME NEW i \in DOMAIN results
        PROVE  (\A j \in DOMAIN results : j > i => results[j].check # c)
                 <=> \A j \in DOMAIN results : results[j].check = c => j <= i
    BY <1>1
  <1>3. c \in Passed(results) <=>
          \E i \in DOMAIN results :
            /\ results[i].check = c /\ results[i].passed
            /\ \A j \in DOMAIN results : j > i => results[j].check # c
    BY DEF Passed
  <1>4. LastSays(results, c, TRUE) <=>
          \E i \in DOMAIN results :
            /\ results[i].check = c /\ results[i].passed
            /\ \A j \in DOMAIN results : results[j].check = c => j <= i
    BY <1>1 DEF LastSays
  <1>5. QED
    BY <1>2, <1>3, <1>4

-----------------------------------------------------------------------------
(* The gate.                                                                 *)

\* What the gate lets through.
Open(e) ==
  /\ MissingFields(e) = {}
  /\ e.profile = Null => ~e.contract.requireProfile /\ Enforced(e.contract) = {}
  /\ e.status # Null
  /\ e.contract.required \subseteq Reported(e.status.results)
  /\ e.profile # Null => Enforced(e.contract) \subseteq e.profile
  /\ ~BelowThreshold(e)
  /\ e.status.warnings <= e.contract.maxWarnings

\* The parts of evidence have their types.
LEMMA EvidenceParts ==
  ASSUME NEW e \in EvidenceType
  PROVE  /\ e.contract \in ContractType
         /\ e.contract.required \in SUBSET Checks /\ IsFiniteSet(e.contract.required)
         /\ e.contract.assertions \in SUBSET Assertions
         /\ IsFiniteSet(e.contract.assertions)
         /\ e.contract.minimum \in Ratios /\ e.contract.maxWarnings \in Nat
         /\ e.contract.onFailure \in {"escalate", "stop"}
         /\ e.contract.requireAll \in BOOLEAN /\ e.contract.requireProfile \in BOOLEAN
         /\ e.status # Null =>
              e.status.results \in Seq(CheckResult) /\ e.status.warnings \in Nat
  <1>1. e.contract \in ContractType /\ (e.status # Null => e.status \in StatusType)
    BY DEF EvidenceType
  <1>2. /\ e.contract.required \in SUBSET Checks
        /\ e.contract.assertions \in SUBSET Assertions
    BY <1>1 DEF ContractType
  <1>3. IsFiniteSet(e.contract.required) /\ IsFiniteSet(e.contract.assertions)
    BY <1>2, GateAssumption, FS_Subset
  <1>4. QED
    BY <1>1, <1>2, <1>3 DEF ContractType, StatusType

\* The gate continues on what it lets through, and else decides as the contract
\* says, with a reason.
LEMMA GateDecides ==
  ASSUME NEW e \in EvidenceType
  PROVE  /\ Gate(e) \in GateDecisions
         /\ Gate(e).decision = "continue" <=> Open(e)
         /\ Gate(e).reason # "none"
  <1>1. /\ e.contract.onFailure \in {"escalate", "stop"}
        /\ e.contract.requireProfile \in BOOLEAN
        /\ e.status # Null => e.status.warnings \in Nat
        /\ e.contract.maxWarnings \in Nat
    BY EvidenceParts
  <1>2. CASE Open(e)
    <2>1. Gate(e) = GateDecision("continue", "GATE_PASSED")
      BY <1>1, <1>2 DEF Open, Gate
    <2>2. QED
      BY <1>2, <2>1 DEF GateDecision, GateDecisions, GateReasons
  <1>3. CASE ~Open(e)
    <2>1. \E r \in GateReasons : Gate(e) = GateDecision(e.contract.onFailure, r)
      BY <1>1, <1>3 DEF Open, Gate, GateReasons
    <2>2. QED
      BY <1>1, <1>3, <2>1 DEF GateDecision, GateDecisions, GateReasons
  <1>4. QED
    BY <1>2, <1>3

\* A required check that has not passed and one that has make up the required ones.
LEMMA UnmetCounted ==
  ASSUME NEW e \in EvidenceType, e.status # Null
  PROVE  LET met == e.contract.required \cap Passed(e.status.results)
         IN /\ Cardinality(met) \in Nat /\ Cardinality(Unmet(e)) \in Nat
            /\ Cardinality(e.contract.required) \in Nat
            /\ Cardinality(Unmet(e)) = Cardinality(e.contract.required) - Cardinality(met)
  <1> DEFINE R == e.contract.required
             P == Passed(e.status.results)
  <1>1. IsFiniteSet(R) /\ R \in SUBSET Checks /\ e.status.results \in Seq(CheckResult)
    BY EvidenceParts
  <1>2. Unmet(e) = R \ P
    <2>1. \A c \in R : c \in P <=> LastSays(e.status.results, c, TRUE)
      BY <1>1, PassedIsLast
    <2>2. QED
      BY <2>1 DEF Unmet
  <1>3. /\ IsFiniteSet(R \ P) /\ IsFiniteSet(R \cap P)
        /\ Cardinality(R \ P) = Cardinality(R) - Cardinality(R \cap P)
    BY <1>1, FS_Difference, FS_Intersection
  <1>4. QED
    BY <1>1, <1>2, <1>3, FS_CardinalityType

\* What the ratio counts.
LEMMA PassedCounted ==
  ASSUME NEW e \in EvidenceType, e.status # Null
  PROVE  LET met == e.contract.required \cap Passed(e.status.results)
             held == IF e.profile = Null THEN {} ELSE e.contract.assertions \cap e.profile
         IN /\ RequiredPassed(e) = Cardinality(met) + Cardinality(held)
            /\ Cardinality(held) \in Nat
            /\ Cardinality(held) <= Cardinality(e.contract.assertions)
            /\ Cardinality(e.contract.assertions) \in Nat
            /\ IsFiniteSet(held)
  <1> DEFINE A == e.contract.assertions
             held == IF e.profile = Null THEN {} ELSE A \cap e.profile
  <1>1. IsFiniteSet(A) /\ held \in SUBSET A
    BY EvidenceParts
  <1>2. IsFiniteSet(held) /\ Cardinality(held) <= Cardinality(A)
    BY <1>1, FS_Subset
  <1>3. Cardinality(A) \in Nat /\ Cardinality(held) \in Nat
    BY <1>1, <1>2, FS_CardinalityType
  <1>4. QED
    BY <1>2, <1>3 DEF RequiredPassed

\* Of the required checks and assertions no more fail than the ratio leaves, if it
\* is met by p of r checks and h of a assertions.
LEMMA RatioLeaves ==
  ASSUME NEW r \in Nat, NEW p \in Nat, NEW a \in Nat, NEW h \in Nat,
         NEW num \in Nat, NEW den \in Nat,
         h <= a, ~ ((p + h) * den < num * (r + a))
  PROVE  (r - p) * den <= (den - num) * (r + a)
  <1>1. (p + h) * den = p * den + h * den /\ (p + h) * den \in Nat
    BY SMT
  <1>2. h * den <= a * den
    BY SMT
  <1>3. (r - p) * den = r * den - p * den /\ (den - num) * (r + a) = den * (r + a) - num * (r + a)
    BY SMT
  <1>4. den * (r + a) = r * den + a * den
    BY SMT
  <1>5. r * den \in Nat /\ p * den \in Nat /\ h * den \in Nat /\ a * den \in Nat
        /\ num * (r + a) \in Nat
    BY SMT
  <1>6. num * (r + a) <= (p + h) * den
    BY <1>1, <1>5
  <1>7. QED
    BY <1>1, <1>2, <1>3, <1>4, <1>5, <1>6

\* What the gate lets through has all that its contract asks for.
LEMMA OpenIsVerified ==
  ASSUME NEW e \in EvidenceType, Open(e)
  PROVE  LET k == e.contract
         IN /\ k.fields # {} => e.feedback # Null /\ k.fields \subseteq e.feedback
            /\ k.requireProfile \/ Asked(k) # {} =>
                 e.profile # Null /\ Asked(k) \subseteq e.profile
            /\ e.status # Null
            /\ \A c \in k.required : \E v \in BOOLEAN : LastSays(e.status.results, c, v)
            /\ Cardinality(Unmet(e)) * k.minimum.den
                 <= (k.minimum.den - k.minimum.num) * RequiredTotal(k)
            /\ e.status.warnings <= k.maxWarnings
  <1> DEFINE k == e.contract
             met == k.required \cap Passed(e.status.results)
             held == IF e.profile = Null THEN {} ELSE k.assertions \cap e.profile
  <1>1. e.status # Null /\ e.status.results \in Seq(CheckResult)
    BY EvidenceParts DEF Open
  <1>2. k.fields # {} => e.feedback # Null /\ k.fields \subseteq e.feedback
    BY DEF Open, MissingFields
  <1>3. k.requireProfile \/ Asked(k) # {} => e.profile # Null /\ Asked(k) \subseteq e.profile
    BY DEF Open, Enforced, Asked
  <1>4. \A c \in k.required : \E v \in BOOLEAN : LastSays(e.status.results, c, v)
    BY <1>1, ReportedHasLast DEF Open
  <1>5. Cardinality(Unmet(e)) * k.minimum.den
          <= (k.minimum.den - k.minimum.num) * RequiredTotal(k)
    <2>1. /\ Cardinality(met) \in Nat /\ Cardinality(k.required) \in Nat
          /\ Cardinality(Unmet(e)) = Cardinality(k.required) - Cardinality(met)
      BY <1>1, UnmetCounted
    <2>2. /\ RequiredPassed(e) = Cardinality(met) + Cardinality(held)
          /\ Cardinality(held) \in Nat /\ Cardinality(k.assertions) \in Nat
          /\ Cardinality(held) <= Cardinality(k.assertions)
      BY <1>1, PassedCounted
    <2>3. k.minimum.num \in Nat /\ k.minimum.den \in Nat
      BY EvidenceParts DEF Ratios
    <2>4. ~ ((Cardinality(met) + Cardinality(held)) * k.minimum.den
               < k.minimum.num * (Cardinality(k.required) + Cardinality(k.assertions)))
      BY <2>2 DEF Open, BelowThreshold, RequiredTotal
    <2> HIDE DEF met, held
    <2>5. (Cardinality(k.required) - Cardinality(met)) * k.minimum.den
            <= (k.minimum.den - k.minimum.num) * (Cardinality(k.required) + Cardinality(k.assertions))
      BY <2>1, <2>2, <2>3, <2>4, RatioLeaves
    <2>6. QED
      BY <2>1, <2>5 DEF RequiredTotal
  <1>6. e.status.warnings <= k.maxWarnings
    BY DEF Open
  <1>7. QED
    BY <1>1, <1>2, <1>3, <1>4, <1>5, <1>6

\* A product grows with its factor.
LEMMA ProductGrows ==
  ASSUME NEW m \in Nat, NEW n \in Nat, NEW k \in Nat, m <= n
  PROVE  m * k <= n * k /\ m * k \in Nat /\ n * k \in Nat
  BY SMT

\* Of better evidence at least as many required checks and assertions are met.
LEMMA BetterPassesMore ==
  ASSUME NEW e \in EvidenceType, NEW f \in EvidenceType, AtLeastAsGood(e, f),
         e.status # Null
  PROVE  RequiredPassed(e) <= RequiredPassed(f)
         /\ RequiredPassed(e) \in Nat /\ RequiredPassed(f) \in Nat
  <1> DEFINE met(g) == g.contract.required \cap Passed(g.status.results)
             held(g) == IF g.profile = Null THEN {} ELSE g.contract.assertions \cap g.profile
  <1>1. /\ f.status # Null /\ e.contract = f.contract
        /\ e.status.results \in Seq(CheckResult) /\ f.status.results \in Seq(CheckResult)
        /\ IsFiniteSet(e.contract.required) /\ e.contract.required \in SUBSET Checks
    BY EvidenceParts DEF AtLeastAsGood
  <1>2. met(e) \subseteq met(f)
    BY <1>1, PassedIsLast DEF AtLeastAsGood
  <1>3. held(e) \subseteq held(f)
    BY <1>1 DEF AtLeastAsGood
  <1>4. IsFiniteSet(met(f)) /\ IsFiniteSet(held(f))
    BY <1>1, FS_Intersection, PassedCounted
  <1>5. Cardinality(met(e)) <= Cardinality(met(f))
    BY <1>2, <1>4, FS_Subset
  <1>6. Cardinality(held(e)) <= Cardinality(held(f))
    BY <1>3, <1>4, FS_Subset
  <1>7. /\ RequiredPassed(e) = Cardinality(met(e)) + Cardinality(held(e))
        /\ RequiredPassed(f) = Cardinality(met(f)) + Cardinality(held(f))
        /\ Cardinality(held(e)) \in Nat /\ Cardinality(held(f)) \in Nat
    BY <1>1, PassedCounted
  <1>8. Cardinality(met(e)) \in Nat /\ Cardinality(met(f)) \in Nat
    BY <1>1, UnmetCounted
  <1> HIDE DEF met, held
  <1>9. QED
    BY <1>5, <1>6, <1>7, <1>8

\* The gate stays open on better evidence.
LEMMA BetterStaysOpen ==
  ASSUME NEW e \in EvidenceType, NEW f \in EvidenceType, AtLeastAsGood(e, f), Open(e)
  PROVE  Open(f)
  <1>1. /\ e.status # Null /\ f.status # Null /\ e.contract = f.contract
        /\ e.status.results \in Seq(CheckResult) /\ f.status.results \in Seq(CheckResult)
        /\ e.status.warnings \in Nat /\ f.status.warnings \in Nat
        /\ e.contract.maxWarnings \in Nat
    BY EvidenceParts DEF AtLeastAsGood, Open
  <1>2. MissingFields(f) = {}
    BY <1>1 DEF Open, MissingFields, AtLeastAsGood
  <1>3. /\ f.profile = Null => ~f.contract.requireProfile /\ Enforced(f.contract) = {}
        /\ f.profile # Null => Enforced(f.contract) \subseteq f.profile
    BY <1>1 DEF Open, AtLeastAsGood
  <1>4. f.contract.required \subseteq Reported(f.status.results)
    <2> SUFFICES ASSUME NEW c \in e.contract.required
                 PROVE  \E v \in BOOLEAN : LastSays(f.status.results, c, v)
      BY <1>1, ReportedHasLast
    <2>1. \E v \in BOOLEAN : LastSays(e.status.results, c, v)
      BY <1>1, ReportedHasLast DEF Open
    <2>2. LastSays(e.status.results, c, TRUE) \/ LastSays(e.status.results, c, FALSE)
      BY <2>1
    <2>3. /\ LastSays(e.status.results, c, TRUE) => LastSays(f.status.results, c, TRUE)
          /\ LastSays(e.status.results, c, FALSE) =>
               \E v \in BOOLEAN : LastSays(f.status.results, c, v)
      BY <1>1 DEF AtLeastAsGood
    <2>4. QED
      BY <2>2, <2>3
  <1>5. ~BelowThreshold(f)
    <2> DEFINE least == e.contract.minimum.num * RequiredTotal(e.contract)
               den == e.contract.minimum.den
    <2>1. e.contract.minimum.num \in Nat /\ den \in Nat /\ den # 0
      BY EvidenceParts DEF Ratios
    <2>2. /\ RequiredPassed(e) <= RequiredPassed(f)
          /\ RequiredPassed(e) \in Nat /\ RequiredPassed(f) \in Nat
      BY <1>1, BetterPassesMore
    <2>3. RequiredTotal(e.contract) \in Nat
      BY EvidenceParts, FS_CardinalityType DEF RequiredTotal
    <2>4. least \in Nat
      BY <2>1, <2>3
    <2>5. ~ (RequiredPassed(e) * den < least)
      BY DEF Open, BelowThreshold
    <2> HIDE DEF den, least
    <2>6. /\ RequiredPassed(e) * den <= RequiredPassed(f) * den
          /\ RequiredPassed(e) * den \in Nat /\ RequiredPassed(f) * den \in Nat
      BY <2>1, <2>2, ProductGrows
    <2>7. ~ (RequiredPassed(f) * den < least)
      BY <2>4, <2>5, <2>6
    <2>8. QED
      BY <1>1, <2>7 DEF BelowThreshold, den, least
  <1>6. f.status.warnings <= f.contract.maxWarnings
    <2>1. f.status.warnings <= e.status.warnings
      BY <1>1 DEF AtLeastAsGood
    <2>2. e.status.warnings <= e.contract.maxWarnings
      BY DEF Open
    <2>3. QED
      BY <1>1, <2>1, <2>2
  <1>7. QED
    BY <1>1, <1>2, <1>3, <1>4, <1>5, <1>6 DEF Open

-----------------------------------------------------------------------------
(* What an invocation comes to.                                              *)

\* What a caller hands in are an input and options of their types.
LEMMA InvocationType ==
  ASSUME NEW c \in Callers, NEW v \in Invocations[c]
  PROVE  v.input \in Inputs /\ v.options \in OptionType
  BY InputAssumption DEF Inputs

\* An invocation has an outcome; it succeeds where its IR is valid and it has no
\* gate or one that is open, and is else a failure of a class.
LEMMA OutcomeDecides ==
  ASSUME NEW i \in Inputs
  PROVE  /\ Outcome(i) \in Outcomes
         /\ Succeeded(Outcome(i)) <=>
              /\ i.ir = "valid"
              /\ i.gate = "absent" \/ (i.gate = "given" /\ Open(i.evidence))
         /\ ~Succeeded(Outcome(i)) =>
              Outcome(i).code # "none" /\ Outcome(i).class # "none"
         /\ i.gate = "given" => i.evidence \in EvidenceType
  <1>1. /\ i.ir \in Irs /\ i.gate \in Gates
        /\ i.gate = "given" => i.evidence \in EvidenceType
    <2>1. PICK c \in Callers : \E v \in Invocations[c] : i = v.input
      BY DEF Inputs
    <2>2. i \in InputType /\ (i.gate = "given" <=> i.evidence # Null)
      BY <2>1, InputAssumption
    <2>3. QED
      BY <2>2 DEF InputType
  <1>2. Bypass \in GateDecisions
    BY DEF Bypass, GateDecision, GateDecisions, GateReasons
  <1>3. CASE i.ir = "valid" /\ i.gate = "given"
    <2> DEFINE g == Gate(i.evidence)
    <2>1. g \in GateDecisions /\ (g.decision = "continue" <=> Open(i.evidence)) /\ g.reason # "none"
      BY <1>1, <1>3, GateDecides
    <2>2. Outcome(i) = Gated(g)
      BY <1>3 DEF Outcome
    <2> HIDE DEF g
    <2>3. CASE g.decision = "continue"
      <3>1. Outcome(i) = [code |-> "none", class |-> "none", gate |-> g]
        BY <2>2, <2>3 DEF Gated, Success, Failed
      <3>2. QED
        BY <1>1, <1>3, <2>1, <2>3, <3>1 DEF Outcomes, InvocationCodes, FailureClasses, Succeeded
    <2>4. CASE g.decision # "continue"
      <3>1. Outcome(i) = [code |-> g.reason, class |-> ClassOf(g.reason), gate |-> g]
        BY <2>2, <2>4 DEF Gated, Failed
      <3>2. g.reason \in GateReasons /\ ClassOf(g.reason) \in {"policy_gate", "deterministic_runtime"}
        BY <2>1 DEF GateDecisions, ClassOf
      <3>3. Outcome(i).code = g.reason /\ Outcome(i).class = ClassOf(g.reason)
        BY <3>1
      <3>4. Outcome(i) \in Outcomes
        BY <2>1, <3>1, <3>2 DEF Outcomes, InvocationCodes, FailureClasses
      <3>5. QED
        BY <1>1, <1>3, <2>1, <2>4, <3>2, <3>3, <3>4 DEF Succeeded
    <2>5. QED
      BY <2>3, <2>4
  <1>4. CASE i.ir = "valid" /\ i.gate = "absent"
    <2>1. Outcome(i) = [code |-> "none", class |-> "none", gate |-> Bypass]
      BY <1>4 DEF Outcome, Success, Failed
    <2>2. QED
      BY <1>2, <1>4, <2>1 DEF Outcomes, InvocationCodes, FailureClasses, Succeeded
  <1>5. CASE i.ir # "valid" \/ i.gate = "malformed"
    <2>1. \E code \in {"SEMANTIC_IR_INPUT_INVALID", "SEMANTIC_IR_VERSION_REQUIRED",
                       "SEMANTIC_IR_GOAL_REQUIRED", "TypeError"},
             class \in {"schema_contract", "deterministic_runtime"} :
            Outcome(i) = [code |-> code, class |-> class, gate |-> Bypass]
      BY <1>1, <1>5 DEF Outcome, Failed, Irs
    <2>2. QED
      BY <1>1, <1>2, <1>5, <2>1 DEF Outcomes, InvocationCodes, FailureClasses, Succeeded
  <1>6. QED
    BY <1>1, <1>3, <1>4, <1>5 DEF Gates

-----------------------------------------------------------------------------
(* The invariant.                                                            *)

\* How far an invocation has come.
Rank(phase) ==
  IF phase = "evaluate" THEN 0
  ELSE IF phase = "ledger" THEN 1
  ELSE IF phase = "feedback" THEN 2
  ELSE IF phase = "inspection" THEN 3
  ELSE IF phase = "report" THEN 4
  ELSE 5

\* An invocation that is evaluated has the outcome of its input, and goes to the
\* FeedbackTensor file only with a failure.
Evaluated(c) ==
  call[c] # Idle =>
    /\ call[c].phase # "evaluate" => call[c].outcome = Outcome(call[c].input)
    /\ call[c].phase = "feedback" => ~Succeeded(call[c].outcome)

Answered == \A r \in returned : r.outcome = Outcome(r.input)

\* No two invocations, under way or returned, have the same id.
IdsApart ==
  /\ \A c \in Callers : call[c] # Idle => call[c].id <= calls
  /\ \A c, d \in Callers :
       call[c] # Idle /\ call[d] # Idle /\ call[c].id = call[d].id => c = d
  /\ \A r \in returned :
       /\ r.id <= calls
       /\ \A c \in Callers : call[c] # Idle => r.id # call[c].id

\* A line of an invocation under way is in a file that it is past, and tells its
\* outcome.
LineKnown(s, line, c) ==
  line.id = call[c].id =>
    /\ Rank(call[c].phase) > Rank(s)
    /\ SaidOk(s, line) = Succeeded(call[c].outcome)
LinesKnown ==
  \A s \in Sinks : \A i \in Readable(sink[s]) :
    /\ sink[s].lines[i].id <= calls
    /\ \A c \in Callers : call[c] # Idle => LineKnown(s, sink[s].lines[i], c)

RunInv ==
  /\ TypeOK
  /\ \A c \in Callers : Evaluated(c)
  /\ Answered
  /\ IdsApart
  /\ LinesKnown
  /\ RecordsTellOutcome

\* An invocation under way has an input and options of their types.
LEMMA CallType ==
  ASSUME TypeOK, NEW c \in Callers, call[c] # Idle
  PROVE  /\ call[c] \in Calls /\ call[c].id \in Nat
         /\ call[c].input \in Inputs /\ call[c].options \in OptionType
  <1>1. call[c] \in Calls
    BY DEF TypeOK
  <1>2. QED
    BY <1>1 DEF Calls

\* The emissions come in one order: where an invocation goes on is past where it
\* was, and at the FeedbackTensor file only with a failure.
LEMMA RanksGrow ==
  ASSUME NEW s \in Sinks, NEW o, NEW out
  PROVE  /\ Rank(After(s, o, out)) > Rank(s)
         /\ Rank(s) > 0 /\ Rank("evaluate") = 0
         /\ Rank(s) \in Nat /\ Rank(After(s, o, out)) \in Nat
         /\ After(s, o, out) \in Phases \ {"evaluate"}
         /\ After(s, o, out) = "feedback" => ~Succeeded(out)
         /\ AfterEvaluate(o, out) \in Phases \ {"evaluate"}
         /\ AfterEvaluate(o, out) = "feedback" => ~Succeeded(out)
  BY DEF Rank, After, AfterEvaluate, AfterLedger, AfterFeedback, AfterInspection, Sinks, Phases

\* A readable line is an entry.
LEMMA LineTypes ==
  ASSUME TypeOK, NEW s \in Sinks, NEW i \in Readable(sink[s])
  PROVE  sink[s].lines[i] \in EntriesOf(s) /\ sink[s].lines[i].id \in Nat
  <1>1. sink[s].lines \in Seq(EntriesOf(s) \cup {Garbled})
    BY DEF TypeOK, LogOf
  <1>2. sink[s].lines[i] \in EntriesOf(s)
    BY <1>1 DEF Readable
  <1>3. QED
    BY <1>2 DEF EntriesOf, LedgerEntries, FeedbackEntries, InspectionEntries

\* What an invocation emits names it, tells its outcome and is of the file's type.
LEMMA EntrySays ==
  ASSUME RunInv, NEW c \in Callers, NEW s \in Sinks, InPhase(c, s)
  PROVE  /\ EntryFor(c, s) \in EntriesOf(s)
         /\ EntryFor(c, s).id = call[c].id
         /\ SaidOk(s, EntryFor(c, s)) = Succeeded(call[c].outcome)
  <1>1. /\ call[c] # Idle /\ call[c].phase = s /\ call[c] \in Calls /\ call[c].id \in Nat
        /\ call[c].input \in Inputs /\ call[c].options \in OptionType
        /\ s # "evaluate"
    BY CallType DEF InPhase, RunInv, Sinks
  <1> DEFINE o == call[c].outcome
  <1>2. /\ o = Outcome(call[c].input)
        /\ s = "feedback" => ~Succeeded(o)
    BY <1>1 DEF RunInv, Evaluated
  <1>3. /\ o \in Outcomes
        /\ ~Succeeded(o) => o.code # "none" /\ o.class # "none"
    BY <1>1, <1>2, OutcomeDecides
  <1>4. /\ call[c].traced \in BOOLEAN /\ call[c].feedback \in BOOLEAN
        /\ call[c].feedbackId \in Nat \cup {Null}
        /\ o.code \in InvocationCodes /\ o.class \in FailureClasses /\ o.gate \in GateDecisions
        /\ Succeeded(o) \in BOOLEAN
    BY <1>1, <1>3 DEF Calls, Outcomes, Succeeded
  <1> HIDE DEF o
  <1>5. EntryFor(c, s).id = call[c].id
    BY DEF EntryFor
  <1>6. CASE s = "ledger"
    <2>1. EntryFor(c, s) = [id |-> call[c].id, ok |-> Succeeded(o)]
      BY <1>6 DEF EntryFor, o
    <2>2. QED
      BY <1>1, <1>4, <1>6, <2>1 DEF EntriesOf, LedgerEntries, SaidOk, o
  <1>7. CASE s = "feedback"
    <2>1. EntryFor(c, s) = [id |-> call[c].id, code |-> o.code, class |-> o.class,
                            traced |-> call[c].traced]
      BY <1>7 DEF EntryFor, o
    <2>2. EntryFor(c, s) \in EntriesOf(s)
      BY <1>1, <1>2, <1>3, <1>4, <1>7, <2>1 DEF EntriesOf, FeedbackEntries
    <2>3. SaidOk(s, EntryFor(c, s)) = Succeeded(o)
      BY <1>2, <1>7 DEF SaidOk, Succeeded
    <2>4. QED
      BY <1>5, <2>2, <2>3 DEF o
  <1>8. CASE s \in {"inspection", "report"}
    <2> DEFINE link == call[c].traced /\ call[c].feedbackId # Null
    <2>1. EntryFor(c, s) =
            [id |-> call[c].id, ok |-> Succeeded(o), code |-> o.code, gate |-> o.gate,
             traced |-> call[c].traced, feedback |-> call[c].feedback,
             feedbackId |-> call[c].feedbackId, feedbackTraced |-> link]
      BY <1>8 DEF EntryFor, o
    <2>2. link \in BOOLEAN
      BY <1>4
    <2> HIDE DEF link
    <2>3. EntriesOf(s) = InspectionEntries /\ SaidOk(s, EntryFor(c, s)) = EntryFor(c, s).ok
      BY <1>8 DEF EntriesOf, SaidOk
    <2>4. EntryFor(c, s) \in EntriesOf(s) /\ SaidOk(s, EntryFor(c, s)) = Succeeded(o)
      BY <1>1, <1>4, <2>1, <2>2, <2>3 DEF InspectionEntries
    <2>5. QED
      BY <1>5, <2>4 DEF o
  <1>9. QED
    BY <1>6, <1>7, <1>8 DEF Sinks

-----------------------------------------------------------------------------
(* Appends.                                                                  *)

\* A file after an append, failed or not: the same lines, and at most one more,
\* the entry or garbage.
LEMMA AppendsExtend ==
  ASSUME NEW E, NEW log \in LogOf(E), NEW entry \in E,
         NEW new \in FailedAppends(log, entry)
  PROVE  /\ new \in LogOf(E)
         /\ \A i \in Readable(new) :
              \/ i \in Readable(log) /\ new.lines[i] = log.lines[i]
              \/ i = Len(log.lines) + 1 /\ new.lines[i] = entry
  <1>1. log.lines \in Seq(E \cup {Garbled}) /\ log.torn \in BOOLEAN
    BY DEF LogOf
  <1>2. CASE new = log
    BY <1>2
  <1>3. CASE new = [log EXCEPT !.torn = TRUE]
    BY <1>1, <1>3 DEF Readable, LogOf
  <1>4. CASE new = Appended(log, entry)
    <2> DEFINE line == IF log.torn THEN Garbled ELSE entry
    <2>1. line \in E \cup {Garbled} /\ (line # Garbled => line = entry)
      OBVIOUS
    <2> HIDE DEF line
    <2>2. new = [lines |-> Append(log.lines, line), torn |-> FALSE]
      BY <1>4 DEF Appended, line
    <2>3. /\ Append(log.lines, line) \in Seq(E \cup {Garbled})
          /\ DOMAIN Append(log.lines, line) = 1..(Len(log.lines) + 1)
          /\ DOMAIN log.lines = 1..Len(log.lines) /\ Len(log.lines) \in Nat
          /\ \A i \in 1..Len(log.lines) : Append(log.lines, line)[i] = log.lines[i]
          /\ Append(log.lines, line)[Len(log.lines) + 1] = line
      BY <1>1, <2>1
    <2>4. QED
      BY <2>1, <2>2, <2>3 DEF Readable, LogOf
  <1>5. QED
    BY <1>2, <1>3, <1>4 DEF FailedAppends

\* An append by an invocation: the files keep their types.
LEMMA FilesKeepType ==
  ASSUME RunInv, NEW c \in Callers, NEW s \in Sinks, InPhase(c, s),
         NEW log \in FailedAppends(sink[s], EntryFor(c, s)),
         sink' = [sink EXCEPT ![s] = log]
  PROVE  /\ (sink = [t \in Sinks |-> sink[t]])'
         /\ \A t \in Sinks : sink'[t] \in LogOf(EntriesOf(t))
  <1>1. /\ sink = [t \in Sinks |-> sink[t]]
        /\ \A t \in Sinks : sink[t] \in LogOf(EntriesOf(t))
    BY DEF RunInv, TypeOK
  <1>2. log \in LogOf(EntriesOf(s))
    BY <1>1, EntrySays, AppendsExtend
  <1>3. QED
    BY <1>1, <1>2

\* What is read in the files was there, or is the entry of the invocation.
LEMMA LinesAfterAppend ==
  ASSUME RunInv, NEW c \in Callers, NEW s \in Sinks, InPhase(c, s),
         NEW log \in FailedAppends(sink[s], EntryFor(c, s)),
         sink' = [sink EXCEPT ![s] = log]
  PROVE  \A t \in Sinks : \A i \in Readable(sink'[t]) :
           \/ i \in Readable(sink[t]) /\ sink'[t].lines[i] = sink[t].lines[i]
           \/ /\ t = s /\ i = Len(sink[s].lines) + 1
              /\ sink'[t].lines[i] = EntryFor(c, s)
  <1>1. /\ sink = [t \in Sinks |-> sink[t]]
        /\ \A t \in Sinks : sink[t] \in LogOf(EntriesOf(t))
    BY DEF RunInv, TypeOK
  <1>2. \A i \in Readable(log) :
          \/ i \in Readable(sink[s]) /\ log.lines[i] = sink[s].lines[i]
          \/ i = Len(sink[s].lines) + 1 /\ log.lines[i] = EntryFor(c, s)
    BY <1>1, EntrySays, AppendsExtend
  <1>3. sink'[s] = log /\ \A t \in Sinks \ {s} : sink'[t] = sink[t]
    BY <1>1
  <1>4. QED
    BY <1>2, <1>3

\* An append keeps the records in agreement: the invocation had no line in this
\* file, its lines in the others tell the same outcome, and it has not returned.
LEMMA AppendKeepsRecords ==
  ASSUME RunInv, NEW c \in Callers, NEW s \in Sinks, InPhase(c, s),
         NEW log \in FailedAppends(sink[s], EntryFor(c, s)),
         sink' = [sink EXCEPT ![s] = log], returned' = returned
  PROVE  RecordsTellOutcome'
  <1>1. call[c] # Idle /\ call[c].phase = s
    BY DEF InPhase
  <1> SUFFICES ASSUME NEW t \in Sinks, NEW u \in Sinks,
                      NEW i \in Readable(sink'[t]), NEW j \in Readable(sink'[u]),
                      sink'[t].lines[i].id = sink'[u].lines[j].id
               PROVE  /\ t = u => i = j
                      /\ SaidOk(t, sink'[t].lines[i]) = SaidOk(u, sink'[u].lines[j])
                      /\ \A r \in returned' :
                           r.id = sink'[t].lines[i].id =>
                             SaidOk(t, sink'[t].lines[i]) = Succeeded(r.outcome)
    BY DEF RecordsTellOutcome
  <1> DEFINE Old(v, k) == k \in Readable(sink[v]) /\ sink'[v].lines[k] = sink[v].lines[k]
             New(v, k) == /\ v = s /\ k = Len(sink[s].lines) + 1
                          /\ sink'[v].lines[k] = EntryFor(c, s)
  <1>2. (Old(t, i) \/ New(t, i)) /\ (Old(u, j) \/ New(u, j))
    <2>1. \A v \in Sinks : \A k \in Readable(sink'[v]) : Old(v, k) \/ New(v, k)
      BY LinesAfterAppend
    <2> HIDE DEF Old, New
    <2>2. QED
      BY <2>1
  <1>3. \A v \in Sinks : \A k \in Readable(sink[v]) :
          sink[v].lines[k].id = call[c].id =>
            v # s /\ SaidOk(v, sink[v].lines[k]) = Succeeded(call[c].outcome)
    BY <1>1, RanksGrow DEF RunInv, LinesKnown, LineKnown
  <1>4. \A r \in returned : r.id # call[c].id
    BY <1>1 DEF RunInv, IdsApart
  <1>5. /\ EntryFor(c, s).id = call[c].id
        /\ SaidOk(s, EntryFor(c, s)) = Succeeded(call[c].outcome)
    BY EntrySays
  <1>6. CASE Old(t, i) /\ Old(u, j)
    <2>1. /\ i \in Readable(sink[t]) /\ j \in Readable(sink[u])
          /\ sink[t].lines[i].id = sink[u].lines[j].id
      BY <1>6
    <2>2. /\ t = u => i = j
          /\ SaidOk(t, sink[t].lines[i]) = SaidOk(u, sink[u].lines[j])
          /\ \A r \in returned :
               r.id = sink[t].lines[i].id => SaidOk(t, sink[t].lines[i]) = Succeeded(r.outcome)
      BY <2>1 DEF RunInv, RecordsTellOutcome
    <2>3. QED
      BY <2>2, <1>6
  <1>7. CASE Old(t, i) /\ New(u, j)
    <2>1. i \in Readable(sink[t]) /\ sink[t].lines[i].id = call[c].id
      BY <1>5, <1>7
    <2>2. t # s /\ SaidOk(t, sink[t].lines[i]) = Succeeded(call[c].outcome)
      BY <1>3, <2>1
    <2>3. QED
      BY <1>4, <1>5, <1>7, <2>1, <2>2
  <1>8. CASE New(t, i) /\ Old(u, j)
    <2>1. j \in Readable(sink[u]) /\ sink[u].lines[j].id = call[c].id
      BY <1>5, <1>8
    <2>2. u # s /\ SaidOk(u, sink[u].lines[j]) = Succeeded(call[c].outcome)
      BY <1>3, <2>1
    <2>3. QED
      BY <1>4, <1>5, <1>8, <2>1, <2>2
  <1>9. CASE New(t, i) /\ New(u, j)
    BY <1>4, <1>5, <1>9
  <1>10. QED
    BY <1>2, <1>6, <1>7, <1>8, <1>9

\* The other lines are as they were: of invocations that have begun, and those of
\* an invocation under way tell its outcome.
LEMMA AppendKeepsLines ==
  ASSUME RunInv, NEW c \in Callers, NEW s \in Sinks, InPhase(c, s),
         NEW log \in FailedAppends(sink[s], EntryFor(c, s)),
         sink' = [sink EXCEPT ![s] = log]
  PROVE  \A t \in Sinks : \A i \in Readable(sink'[t]) :
           /\ sink'[t].lines[i].id <= calls
           /\ \A d \in Callers \ {c} :
                call[d] # Idle => LineKnown(t, sink'[t].lines[i], d)
           /\ sink'[t].lines[i].id = call[c].id =>
                /\ SaidOk(t, sink'[t].lines[i]) = Succeeded(call[c].outcome)
                /\ t = s \/ Rank(call[c].phase) > Rank(t)
  <1> DEFINE Known(t, line) ==
               /\ line.id <= calls
               /\ \A d \in Callers \ {c} : call[d] # Idle => LineKnown(t, line, d)
               /\ line.id = call[c].id =>
                    /\ SaidOk(t, line) = Succeeded(call[c].outcome)
                    /\ t = s \/ Rank(call[c].phase) > Rank(t)
  <1>1. call[c] # Idle
    BY DEF InPhase
  <1>2. \A t \in Sinks : \A i \in Readable(sink[t]) : Known(t, sink[t].lines[i])
    BY <1>1 DEF RunInv, LinesKnown, LineKnown
  <1>3. Known(s, EntryFor(c, s))
    <2>1. /\ EntryFor(c, s).id = call[c].id
          /\ SaidOk(s, EntryFor(c, s)) = Succeeded(call[c].outcome)
      BY EntrySays
    <2>2. /\ call[c].id <= calls
          /\ \A d \in Callers \ {c} : call[d] # Idle => call[d].id # call[c].id
      BY <1>1 DEF RunInv, IdsApart
    <2>3. QED
      BY <2>1, <2>2 DEF LineKnown
  <1>4. \A t \in Sinks : \A i \in Readable(sink'[t]) :
          \/ i \in Readable(sink[t]) /\ sink'[t].lines[i] = sink[t].lines[i]
          \/ /\ t = s /\ i = Len(sink[s].lines) + 1
             /\ sink'[t].lines[i] = EntryFor(c, s)
    BY LinesAfterAppend
  <1> HIDE DEF Known
  <1>5. \A t \in Sinks : \A i \in Readable(sink'[t]) : Known(t, sink'[t].lines[i])
    <2> TAKE t \in Sinks
    <2> TAKE i \in Readable(sink'[t])
    <2>1. CASE i \in Readable(sink[t]) /\ sink'[t].lines[i] = sink[t].lines[i]
      <3>1. Known(t, sink[t].lines[i])
        BY <1>2, <2>1
      <3>2. QED
        BY <2>1, <3>1
    <2>2. CASE t = s /\ sink'[t].lines[i] = EntryFor(c, s)
      BY <1>3, <2>2
    <2>3. QED
      BY <1>4, <2>1, <2>2
  <1>6. QED
    BY <1>5 DEF Known

-----------------------------------------------------------------------------
(* The invariant is inductive.                                               *)

\* The invariant holds at first: nobody has called and the files are empty.
LEMMA InitRun == Init => RunInv
  <1> SUFFICES ASSUME Init
               PROVE  RunInv
    OBVIOUS
  <1>1. \A s \in Sinks : Readable(sink[s]) = {}
    BY DEF Init, Readable, EmptyLog
  <1>2. TypeOK
    <2>1. \A E : EmptyLog \in LogOf(E)
      BY DEF EmptyLog, LogOf
    <2>2. QED
      BY <2>1 DEF Init, TypeOK, Idle
  <1>3. IdsApart /\ Answered /\ \A c \in Callers : Evaluated(c)
    BY DEF Init, IdsApart, Answered, Evaluated
  <1>4. QED
    BY <1>1, <1>2, <1>3 DEF RunInv, LinesKnown, RecordsTellOutcome

\* What a step of one caller does to it is all that has to be shown of types and
\* outcomes.
LEMMA OneCallChanges ==
  ASSUME TypeOK, \A d \in Callers : Evaluated(d), NEW c \in Callers, NEW new,
         call' = [call EXCEPT ![c] = new], new \in Calls \cup {Idle},
         (sink = [s \in Sinks |-> sink[s]])',
         \A s \in Sinks : sink'[s] \in LogOf(EntriesOf(s)),
         calls' \in Nat, returned' \subseteq [id : Nat, input : Inputs, outcome : Outcomes],
         new # Idle =>
           /\ new.phase # "evaluate" => new.outcome = Outcome(new.input)
           /\ new.phase = "feedback" => ~Succeeded(new.outcome)
  PROVE  /\ TypeOK' /\ \A d \in Callers : Evaluated(d)'
         /\ call'[c] = new /\ \A d \in Callers \ {c} : call'[d] = call[d]
  <1>1. /\ call'[c] = new
        /\ \A d \in Callers \ {c} : call'[d] = call[d]
        /\ call' \in [Callers -> Calls \cup {Idle}]
    BY DEF TypeOK
  <1>2. TypeOK'
    BY <1>1 DEF TypeOK
  <1>3. \A d \in Callers : Evaluated(d)'
    BY <1>1 DEF Evaluated
  <1>4. QED
    BY <1>1, <1>2, <1>3

\* The id of an invocation that begins is in no file and with no other.
LEMMA BeginKeepsRun ==
  ASSUME RunInv, NEW c \in Callers, Begin(c)
  PROVE  RunInv'
  <1>1. PICK v \in Invocations[c] :
          call' = [call EXCEPT ![c] =
                     [phase |-> "evaluate", id |-> calls', input |-> v.input,
                      options |-> v.options, outcome |-> Null,
                      traced |-> FALSE, feedback |-> FALSE, feedbackId |-> Null]]
    BY DEF Begin
  <1> DEFINE new == [phase |-> "evaluate", id |-> calls', input |-> v.input,
                     options |-> v.options, outcome |-> Null,
                     traced |-> FALSE, feedback |-> FALSE, feedbackId |-> Null]
  <1>2. /\ call[c] = Idle /\ calls' = calls + 1 /\ calls \in Nat
        /\ UNCHANGED <<sink, returned>>
    BY DEF Begin, RunInv, TypeOK
  <1>3. new \in Calls /\ new.phase = "evaluate" /\ new.id = calls'
    BY <1>2, InvocationType DEF Calls, Phases
  <1> HIDE DEF new
  <1>4. /\ TypeOK' /\ \A d \in Callers : Evaluated(d)'
        /\ call'[c] = new /\ \A d \in Callers \ {c} : call'[d] = call[d]
    <2>1. call' = [call EXCEPT ![c] = new]
      BY <1>1 DEF new
    <2>2. (new # Idle =>
             /\ new.phase # "evaluate" => new.outcome = Outcome(new.input)
             /\ new.phase = "feedback" => ~Succeeded(new.outcome))
      BY <1>3
    <2>3. /\ (sink = [s \in Sinks |-> sink[s]])'
          /\ \A s \in Sinks : sink'[s] \in LogOf(EntriesOf(s))
          /\ calls' \in Nat
          /\ returned' \subseteq [id : Nat, input : Inputs, outcome : Outcomes]
      BY <1>2 DEF RunInv, TypeOK
    <2>4. QED
      BY <1>3, <2>1, <2>2, <2>3, OneCallChanges DEF RunInv
  <1>5. \A d \in Callers : call[d] # Idle => call[d].id \in Nat /\ call[d].id <= calls
    BY CallType DEF RunInv, IdsApart
  <1>6. \A r \in returned : r.id \in Nat /\ r.id <= calls
    BY DEF RunInv, TypeOK, IdsApart
  <1>7. \A s \in Sinks : \A k \in Readable(sink[s]) :
          sink[s].lines[k].id \in Nat /\ sink[s].lines[k].id <= calls
    BY LineTypes DEF RunInv, LinesKnown
  <1>8. IdsApart'
    BY <1>2, <1>3, <1>4, <1>5, <1>6 DEF RunInv, IdsApart
  <1>9. LinesKnown'
    <2> SUFFICES ASSUME NEW s \in Sinks, NEW k \in Readable(sink[s]),
                        NEW d \in Callers, call'[d] # Idle
                 PROVE  /\ sink[s].lines[k].id <= calls'
                        /\ LineKnown(s, sink[s].lines[k], d)'
      BY <1>2, <1>7 DEF LinesKnown, LineKnown
    <2>1. CASE d = c
      BY <1>2, <1>3, <1>4, <1>7, <2>1 DEF LineKnown
    <2>2. CASE d # c
      <3>1. LineKnown(s, sink[s].lines[k], d)
        BY <1>4, <2>2 DEF RunInv, LinesKnown
      <3>2. QED
        BY <1>2, <1>4, <1>7, <2>2, <3>1 DEF LineKnown
    <2>3. QED
      BY <2>1, <2>2
  <1>10. RecordsTellOutcome' /\ Answered'
    BY <1>2 DEF RunInv, RecordsTellOutcome, Answered
  <1>11. QED
    BY <1>4, <1>8, <1>9, <1>10 DEF RunInv
\* A step after which the invocation is still under way, with its id and input.
GoesOn(c) ==
  /\ call[c] # Idle /\ call'[c] \in Calls
  /\ call'[c].id = call[c].id /\ call'[c].input = call[c].input
  /\ \A d \in Callers \ {c} : call'[d] = call[d]

\* An evaluation leaves the files alone, in which the invocation has no line yet.
LEMMA EvaluateKeepsRun ==
  ASSUME RunInv, NEW c \in Callers, Evaluate(c)
  PROVE  RunInv' /\ GoesOn(c)
  <1> DEFINE o == Outcome(call[c].input)
             p == AfterEvaluate(call[c].options, o)
             new == [call[c] EXCEPT !.outcome = o, !.phase = p]
  <1>1. /\ call[c] # Idle /\ call[c].phase = "evaluate"
        /\ UNCHANGED <<sink, calls, returned>>
        /\ call' = [call EXCEPT ![c] = new]
    <2>1. call' = [call EXCEPT ![c].outcome = o, ![c].phase = p]
      BY DEF Evaluate
    <2>2. [call EXCEPT ![c].outcome = o, ![c].phase = p] = [call EXCEPT ![c] = new]
      BY DEF RunInv, TypeOK
    <2>3. QED
      BY <2>1, <2>2 DEF Evaluate, InPhase
  <1>2. call[c] \in Calls /\ call[c].input \in Inputs /\ o \in Outcomes
    BY <1>1, CallType, OutcomeDecides DEF RunInv
  <1>3. p \in Phases /\ (p = "feedback" => ~Succeeded(o))
    BY RanksGrow DEF Sinks
  <1> HIDE DEF o, p
  <1>4. /\ new \in Calls /\ new.id = call[c].id
        /\ new.input = call[c].input /\ new.outcome = o /\ new.phase = p
    BY <1>2, <1>3 DEF Calls
  <1> HIDE DEF new
  <1>5. /\ TypeOK' /\ \A d \in Callers : Evaluated(d)'
        /\ call'[c] = new /\ \A d \in Callers \ {c} : call'[d] = call[d]
    <2>1. new # Idle =>
            /\ new.phase # "evaluate" => new.outcome = Outcome(new.input)
            /\ new.phase = "feedback" => ~Succeeded(new.outcome)
      BY <1>3, <1>4 DEF o
    <2>2. /\ (sink = [s \in Sinks |-> sink[s]])'
          /\ \A s \in Sinks : sink'[s] \in LogOf(EntriesOf(s))
          /\ calls' \in Nat
          /\ returned' \subseteq [id : Nat, input : Inputs, outcome : Outcomes]
      BY <1>1 DEF RunInv, TypeOK
    <2>3. QED
      BY <1>1, <1>4, <2>1, <2>2, OneCallChanges DEF RunInv
  <1>6. \A d \in Callers : call'[d] # Idle => call[d] # Idle /\ call'[d].id = call[d].id
    BY <1>1, <1>4, <1>5
  <1>7. IdsApart'
    BY <1>1, <1>6 DEF RunInv, IdsApart
  <1>8. LinesKnown'
    <2> SUFFICES ASSUME NEW s \in Sinks, NEW k \in Readable(sink[s]),
                        NEW d \in Callers, call'[d] # Idle
                 PROVE  /\ sink[s].lines[k].id <= calls
                        /\ LineKnown(s, sink[s].lines[k], d)'
      BY <1>1 DEF RunInv, LinesKnown, LineKnown
    <2>1. sink[s].lines[k].id <= calls /\ LineKnown(s, sink[s].lines[k], d)
      BY <1>6 DEF RunInv, LinesKnown
    <2>2. CASE d = c
      <3>1. Rank(call[c].phase) = 0 /\ Rank(s) > 0 /\ Rank(s) \in Nat
        BY <1>1, RanksGrow
      <3>2. sink[s].lines[k].id # call[c].id
        BY <2>1, <2>2, <3>1 DEF LineKnown
      <3>3. QED
        BY <1>1, <1>6, <2>1, <2>2, <3>2 DEF LineKnown
    <2>3. CASE d # c
      BY <1>1, <1>5, <2>1, <2>3 DEF LineKnown
    <2>4. QED
      BY <2>2, <2>3
  <1>9. RecordsTellOutcome' /\ Answered'
    BY <1>1 DEF RunInv, RecordsTellOutcome, Answered
  <1>10. GoesOn(c)
    BY <1>1, <1>4, <1>5 DEF GoesOn
  <1>11. QED
    BY <1>5, <1>7, <1>8, <1>9, <1>10 DEF RunInv

\* An append of an invocation that goes on or dies.
LEMMA AppendKeepsRun ==
  ASSUME RunInv, TypeOK', \A d \in Callers : Evaluated(d)',
         NEW c \in Callers, NEW s \in Sinks, InPhase(c, s),
         NEW log \in FailedAppends(sink[s], EntryFor(c, s)),
         sink' = [sink EXCEPT ![s] = log],
         UNCHANGED <<calls, returned>>,
         \A d \in Callers \ {c} : call'[d] = call[d],
         call'[c] # Idle =>
           /\ call'[c].id = call[c].id
           /\ call'[c].outcome = call[c].outcome
           /\ Rank(call'[c].phase) > Rank(s)
           /\ \A t \in Sinks : Rank(call[c].phase) > Rank(t) =>
                               Rank(call'[c].phase) > Rank(t)
  PROVE  RunInv'
  <1>1. call[c] # Idle
    BY DEF InPhase
  <1>2. IdsApart'
    <2>1. \A d \in Callers : call'[d] # Idle => call[d] # Idle /\ call'[d].id = call[d].id
      BY <1>1
    <2>2. QED
      BY <2>1 DEF RunInv, IdsApart
  <1>3. LinesKnown'
    <2> SUFFICES ASSUME NEW t \in Sinks, NEW i \in Readable(sink'[t])
                 PROVE  /\ sink'[t].lines[i].id <= calls
                        /\ \A d \in Callers : call'[d] # Idle =>
                             (sink'[t].lines[i].id = call'[d].id =>
                               /\ Rank(call'[d].phase) > Rank(t)
                               /\ SaidOk(t, sink'[t].lines[i]) = Succeeded(call'[d].outcome))
      BY DEF LinesKnown, LineKnown
    <2>1. /\ sink'[t].lines[i].id <= calls
          /\ \A d \in Callers \ {c} : call[d] # Idle =>
               (sink'[t].lines[i].id = call[d].id =>
                 /\ Rank(call[d].phase) > Rank(t)
                 /\ SaidOk(t, sink'[t].lines[i]) = Succeeded(call[d].outcome))
          /\ sink'[t].lines[i].id = call[c].id =>
               /\ SaidOk(t, sink'[t].lines[i]) = Succeeded(call[c].outcome)
               /\ t = s \/ Rank(call[c].phase) > Rank(t)
      BY AppendKeepsLines DEF LineKnown
    <2>2. QED
      BY <2>1
  <1>4. RecordsTellOutcome'
    BY AppendKeepsRecords
  <1>5. Answered'
    BY DEF RunInv, Answered
  <1>6. QED
    BY <1>2, <1>3, <1>4, <1>5 DEF RunInv
\* An emission adds at most one line of the invocation, to a file that has none of
\* it, and its outcome stays whatever becomes of the append.
LEMMA EmitKeepsRun ==
  ASSUME RunInv, NEW c \in Callers, NEW s \in Sinks, Emit(c, s)
  PROVE  RunInv' /\ GoesOn(c)
  <1>1. /\ call[c] # Idle /\ call[c].phase = s /\ InPhase(c, s)
        /\ call[c] \in Calls /\ call[c].input \in Inputs
        /\ UNCHANGED <<calls, returned>>
    BY CallType DEF Emit, InPhase, RunInv
  <1>2. PICK written \in BOOLEAN :
          /\ \E log \in IF written THEN {Appended(sink[s], EntryFor(c, s))}
                                   ELSE FailedAppends(sink[s], EntryFor(c, s)) :
               sink' = [sink EXCEPT ![s] = log]
          /\ call' = [call EXCEPT ![c].phase = Onward(c, s, written),
                                  ![c].traced = Traced(c, s, written),
                                  ![c].feedback = FeedbackKept(c, s, written),
                                  ![c].feedbackId = FeedbackId(c, s, written),
                                  ![c].outcome = OutcomeAfter(c, s, written)]
    BY DEF Emit
  <1>3. PICK log \in FailedAppends(sink[s], EntryFor(c, s)) :
          sink' = [sink EXCEPT ![s] = log]
    BY <1>2 DEF FailedAppends
  <1> DEFINE o == call[c].outcome
             p == After(s, call[c].options, o)
             tr == Traced(c, s, written)
             fb == FeedbackKept(c, s, written)
             link == FeedbackId(c, s, written)
             new == [call[c] EXCEPT !.phase = p, !.traced = tr, !.feedback = fb,
                                    !.feedbackId = link, !.outcome = o]
  <1>4. call' = [call EXCEPT ![c] = new]
    BY <1>2 DEF RunInv, TypeOK, Onward, OutcomeAfter
  <1>5. /\ p \in Phases \ {"evaluate"} /\ (p = "feedback" => ~Succeeded(o))
        /\ Rank(p) > Rank(s) /\ Rank(p) \in Nat /\ Rank(s) \in Nat
    BY RanksGrow
  <1>6. tr \in BOOLEAN /\ fb \in BOOLEAN /\ link \in Nat \cup {Null}
    BY <1>1 DEF Traced, FeedbackKept, FeedbackId, Calls
  <1>7. o = Outcome(call[c].input)
    BY <1>1 DEF RunInv, Evaluated, Sinks
  <1>8. o \in Outcomes
    BY <1>1, <1>7, OutcomeDecides
  <1> HIDE DEF o, p, tr, fb, link
  <1>9. /\ new \in Calls /\ new.id = call[c].id /\ new.input = call[c].input
        /\ new.outcome = o /\ new.phase = p
    BY <1>1, <1>5, <1>6, <1>8 DEF Calls
  <1> HIDE DEF new
  <1>10. /\ TypeOK' /\ \A d \in Callers : Evaluated(d)'
         /\ call'[c] = new /\ \A d \in Callers \ {c} : call'[d] = call[d]
    <2>1. new # Idle =>
            /\ new.phase # "evaluate" => new.outcome = Outcome(new.input)
            /\ new.phase = "feedback" => ~Succeeded(new.outcome)
      BY <1>5, <1>7, <1>9
    <2>2. /\ (sink = [t \in Sinks |-> sink[t]])'
          /\ \A t \in Sinks : sink'[t] \in LogOf(EntriesOf(t))
      BY <1>1, <1>3, FilesKeepType
    <2>3. /\ calls' \in Nat
          /\ returned' \subseteq [id : Nat, input : Inputs, outcome : Outcomes]
      BY <1>1 DEF RunInv, TypeOK
    <2>4. QED
      BY <1>4, <1>9, <2>1, <2>2, <2>3, OneCallChanges DEF RunInv
  <1>11. \A t \in Sinks : Rank(call[c].phase) > Rank(t) => Rank(call'[c].phase) > Rank(t)
    BY <1>1, <1>5, <1>9, <1>10, RanksGrow
  <1>12. call'[c].id = call[c].id /\ call'[c].outcome = call[c].outcome /\ Rank(call'[c].phase) > Rank(s)
    BY <1>5, <1>9, <1>10 DEF o
  <1>13. RunInv'
    BY <1>1, <1>3, <1>10, <1>11, <1>12, AppendKeepsRun
  <1>14. GoesOn(c)
    BY <1>1, <1>9, <1>10 DEF GoesOn
  <1>15. QED
    BY <1>13, <1>14

\* Of an invocation that is over, the caller is free again and the rest has its
\* types.
LEMMA LeavingKeepsTypes ==
  ASSUME RunInv, NEW c \in Callers, call[c] # Idle,
         call' = [call EXCEPT ![c] = Idle], calls' = calls,
         (sink = [s \in Sinks |-> sink[s]])',
         \A s \in Sinks : sink'[s] \in LogOf(EntriesOf(s)),
         returned' \subseteq [id : Nat, input : Inputs, outcome : Outcomes]
  PROVE  /\ TypeOK' /\ \A d \in Callers : Evaluated(d)'
         /\ call'[c] = Idle /\ \A d \in Callers \ {c} : call'[d] = call[d]
  <1>1. calls' \in Nat
    BY DEF RunInv, TypeOK
  <1>2. TypeOK /\ \A d \in Callers : Evaluated(d)
    BY DEF RunInv
  <1>3. QED
    BY <1>1, <1>2, OneCallChanges

\* An invocation that is over leaves lines that tell its outcome.
LEMMA LeavingKeepsRun ==
  ASSUME RunInv, TypeOK', \A d \in Callers : Evaluated(d)',
         NEW c \in Callers, call[c] # Idle, call'[c] = Idle,
         \A d \in Callers \ {c} : call'[d] = call[d],
         UNCHANGED <<sink, calls>>,
         \/ returned' = returned
         \/ /\ call[c].phase = "return"
            /\ returned' = returned \cup {[id |-> call[c].id, input |-> call[c].input,
                                           outcome |-> call[c].outcome]}
  PROVE  RunInv'
  <1>1. \A r \in returned' :
          \/ r \in returned
          \/ /\ call[c].phase = "return"
             /\ r.id = call[c].id /\ r.input = call[c].input /\ r.outcome = call[c].outcome
    OBVIOUS
  <1>2. IdsApart'
    BY <1>1 DEF RunInv, IdsApart
  <1>3. LinesKnown'
    BY DEF RunInv, LinesKnown, LineKnown
  <1>4. Answered'
    BY <1>1 DEF RunInv, Answered, Evaluated
  <1>5. \A s \in Sinks : \A i \in Readable(sink[s]) :
          sink[s].lines[i].id = call[c].id =>
            SaidOk(s, sink[s].lines[i]) = Succeeded(call[c].outcome)
    BY DEF RunInv, LinesKnown, LineKnown
  <1>6. RecordsTellOutcome'
    BY <1>1, <1>5 DEF RunInv, RecordsTellOutcome
  <1>7. QED
    BY <1>2, <1>3, <1>4, <1>6 DEF RunInv

\* What is returned is the outcome of the input.
LEMMA ReturnKeepsRun ==
  ASSUME RunInv, NEW c \in Callers, Return(c)
  PROVE  RunInv'
  <1> DEFINE answer == [id |-> call[c].id, input |-> call[c].input,
                        outcome |-> call[c].outcome]
  <1>1. /\ call[c] # Idle /\ call[c].phase = "return"
        /\ call' = [call EXCEPT ![c] = Idle] /\ UNCHANGED <<sink, calls>>
        /\ returned' = returned \cup {answer}
    BY DEF Return, InPhase
  <1>2. call[c].id \in Nat /\ call[c].input \in Inputs
    BY <1>1, CallType DEF RunInv
  <1>3. call[c].outcome \in Outcomes
    BY <1>1, <1>2, OutcomeDecides DEF RunInv, Evaluated
  <1>4. answer \in [id : Nat, input : Inputs, outcome : Outcomes]
    BY <1>2, <1>3
  <1>5. returned' \subseteq [id : Nat, input : Inputs, outcome : Outcomes]
    BY <1>1, <1>4 DEF RunInv, TypeOK
  <1>6. /\ (sink = [s \in Sinks |-> sink[s]])'
        /\ \A s \in Sinks : sink'[s] \in LogOf(EntriesOf(s))
    BY <1>1 DEF RunInv, TypeOK
  <1>7. /\ TypeOK' /\ \A d \in Callers : Evaluated(d)'
        /\ call'[c] = Idle /\ \A d \in Callers \ {c} : call'[d] = call[d]
    BY <1>1, <1>5, <1>6, LeavingKeepsTypes
  <1>8. QED
    BY <1>1, <1>7, LeavingKeepsRun

\* A crash leaves at most the line that the invocation was about to write.
LEMMA CrashKeepsRun ==
  ASSUME RunInv, NEW c \in Callers, Crash(c)
  PROVE  RunInv'
  <1>1. /\ call[c] # Idle /\ call' = [call EXCEPT ![c] = Idle]
        /\ UNCHANGED <<calls, returned>>
        /\ returned' \subseteq [id : Nat, input : Inputs, outcome : Outcomes]
    BY DEF Crash, RunInv, TypeOK
  <1>2. CASE sink' = sink
    <2>1. /\ (sink = [s \in Sinks |-> sink[s]])'
          /\ \A s \in Sinks : sink'[s] \in LogOf(EntriesOf(s))
      BY <1>2 DEF RunInv, TypeOK
    <2>2. /\ TypeOK' /\ \A d \in Callers : Evaluated(d)'
          /\ call'[c] = Idle /\ \A d \in Callers \ {c} : call'[d] = call[d]
      BY <1>1, <2>1, LeavingKeepsTypes
    <2>3. QED
      BY <1>1, <1>2, <2>2, LeavingKeepsRun
  <1>3. ASSUME NEW s \in Sinks, call[c].phase = s,
               NEW log \in FailedAppends(sink[s], EntryFor(c, s)),
               sink' = [sink EXCEPT ![s] = log]
        PROVE  RunInv'
    <2>1. InPhase(c, s)
      BY <1>1, <1>3 DEF InPhase
    <2>2. /\ (sink = [t \in Sinks |-> sink[t]])'
          /\ \A t \in Sinks : sink'[t] \in LogOf(EntriesOf(t))
      BY <1>3, <2>1, FilesKeepType
    <2>3. /\ TypeOK' /\ \A d \in Callers : Evaluated(d)'
          /\ call'[c] = Idle /\ \A d \in Callers \ {c} : call'[d] = call[d]
      BY <1>1, <2>2, LeavingKeepsTypes
    <2>4. QED
      BY <1>1, <1>3, <2>1, <2>3, AppendKeepsRun
  <1>4. QED
    BY <1>2, <1>3 DEF Crash

\* Every step of the runtime keeps the invariant.
LEMMA NextKeepsRun == RunInv /\ [Next]_vars => RunInv'
  <1>1. ASSUME RunInv, UNCHANGED vars
        PROVE  RunInv'
    BY <1>1 DEF vars, RunInv, TypeOK, Evaluated, Answered, IdsApart, LinesKnown,
                LineKnown, RecordsTellOutcome
  <1>2. ASSUME RunInv, Next
        PROVE  RunInv'
    BY <1>2, BeginKeepsRun, EvaluateKeepsRun, EmitKeepsRun, ReturnKeepsRun,
       CrashKeepsRun DEF Next, Step
  <1>3. QED
    BY <1>1, <1>2

\* The invariant holds in every behaviour.
LEMMA RunInvariant == Spec => []RunInv
  BY InitRun, NextKeepsRun, PTL DEF Spec

-----------------------------------------------------------------------------
(* Theorems.                                                                 *)

\* Invocations, outcomes and the lines of the files keep their types.
THEOREM RunTypeCorrect == Spec => []TypeOK
  <1>1. RunInv => TypeOK
    BY DEF RunInv
  <1>2. QED
    BY <1>1, RunInvariant, PTL

\* The ledger, FeedbackTensor, inspection and report files and the caller are told
\* the same of an invocation, once each, whatever else is appended, fails or dies.
THEOREM RecordsAgree == Spec => []RecordsTellOutcome
  <1>1. RunInv => RecordsTellOutcome
    BY DEF RunInv
  <1>2. QED
    BY <1>1, RunInvariant, PTL

\* An invocation that was let through is let through on better evidence, under any
\* contract.
THEOREM MoreEvidenceIsEnough == Spec => []MoreEvidenceNeverBlocks
  <1>1. RunInv => MoreEvidenceNeverBlocks
    <2> SUFFICES ASSUME RunInv, NEW r \in returned, NEW q \in returned,
                        r.input.gate = "given", q.input.gate = "given",
                        r.input.ir = "valid", q.input.ir = "valid",
                        AtLeastAsGood(r.input.evidence, q.input.evidence),
                        Succeeded(r.outcome)
                 PROVE  Succeeded(q.outcome)
      BY DEF MoreEvidenceNeverBlocks
    <2>1. /\ r.input \in Inputs /\ q.input \in Inputs
          /\ r.outcome = Outcome(r.input) /\ q.outcome = Outcome(q.input)
      BY DEF RunInv, TypeOK, Answered
    <2>2. /\ r.input.evidence \in EvidenceType /\ q.input.evidence \in EvidenceType
          /\ Open(r.input.evidence)
      BY <2>1, OutcomeDecides
    <2>3. Open(q.input.evidence)
      BY <2>2, BetterStaysOpen
    <2>4. QED
      BY <2>1, <2>3, OutcomeDecides
  <1>2. QED
    BY <1>1, RunInvariant, PTL

\* An invocation that succeeds under a gate has the evidence its contract asks
\* for, under any contract.
THEOREM ContinuedRunsAreVerified == Spec => []ContinuedIsVerified
  <1>1. RunInv => ContinuedIsVerified
    <2> SUFFICES ASSUME RunInv, NEW r \in returned, Succeeded(r.outcome),
                        r.input.gate = "given"
                 PROVE  LET e == r.input.evidence
                            k == e.contract
                        IN /\ r.input.ir = "valid"
                           /\ k.fields # {} => e.feedback # Null /\ k.fields \subseteq e.feedback
                           /\ k.requireProfile \/ Asked(k) # {} =>
                                e.profile # Null /\ Asked(k) \subseteq e.profile
                           /\ e.status # Null
                           /\ \A c \in k.required : \E v \in BOOLEAN : LastSays(e.status.results, c, v)
                           /\ Cardinality(Unmet(e)) * k.minimum.den
                                <= (k.minimum.den - k.minimum.num) * RequiredTotal(k)
                           /\ e.status.warnings <= k.maxWarnings
      BY DEF ContinuedIsVerified
    <2>1. r.input \in Inputs /\ r.outcome = Outcome(r.input)
      BY DEF RunInv, TypeOK, Answered
    <2>2. r.input.ir = "valid" /\ r.input.evidence \in EvidenceType /\ Open(r.input.evidence)
      BY <2>1, OutcomeDecides
    <2>3. QED
      BY <2>2, OpenIsVerified
  <1>2. QED
    BY <1>1, RunInvariant, PTL

-----------------------------------------------------------------------------
(* The runtime implements PureRun.                                           *)

Task(c) == [id |-> call[c].id, input |-> call[c].input]
Tasks   == {Task(c) : c \in Under}

\* An invocation that ends is the only one of its id: the others are still pending.
LEMMA EndingRemoves ==
  ASSUME RunInv, NEW c \in Callers, call[c] # Idle, call'[c] = Idle,
         \A d \in Callers \ {c} : call'[d] = call[d]
  PROVE  Tasks' = Tasks \ {Task(c)} /\ Task(c) \in Tasks
  <1>1. c \in Under /\ Under' = Under \ {c}
    BY DEF Under
  <1>2. \A d \in Under \ {c} : Task(d)' = Task(d) /\ Task(d) # Task(c)
    BY DEF Under, Task, RunInv, IdsApart
  <1>3. QED
    BY <1>1, <1>2 DEF Tasks

\* Where an invocation goes on, the same are pending.
LEMMA GoingOnKeepsTasks ==
  ASSUME NEW c \in Callers, GoesOn(c)
  PROVE  Tasks' = Tasks
  <1>1. call'[c] # Idle
    BY NullAssumption DEF GoesOn, Idle
  <1>2. Under' = Under
    BY <1>1 DEF Under, GoesOn
  <1>3. \A d \in Callers : Task(d)' = Task(d)
    BY DEF GoesOn, Task
  <1>4. QED
    BY <1>2, <1>3 DEF Tasks, Under

\* An invocation that ends, answered or not, is a step of PureRun.
LEMMA EndingIsPure ==
  ASSUME NEW p \in Tasks, Tasks' = Tasks \ {p}, calls' = calls,
         \/ returned' = returned
         \/ /\ p.input \in Inputs
            /\ returned' = returned \cup {[id |-> p.id, input |-> p.input,
                                           outcome |-> Outcome(p.input)]}
  PROVE  Pure!Next
  BY DEF Pure!Next, Pure!Answer, Pure!Lose, Tasks, Task

\* Every step of the runtime answers one invocation, loses one, begins one, or is
\* none of PureRun's business.
LEMMA StepsArePure ==
  ASSUME RunInv, [Next]_vars
  PROVE  [Pure!Next]_(Pure!vars)
  <1> DEFINE Stutters == Tasks' = Tasks /\ calls' = calls /\ returned' = returned
  <1>1. Stutters => UNCHANGED Pure!vars
    BY DEF Pure!vars, Tasks, Task
  <1>2. CASE UNCHANGED vars
    <2>1. Stutters
      BY <1>2 DEF vars, Tasks, Task, Under
    <2>2. QED
      BY <1>1, <2>1
  <1>3. ASSUME NEW c \in Callers, Begin(c)
        PROVE  Pure!Next
    <2>1. PICK v \in Invocations[c] :
            call' = [call EXCEPT ![c] =
                       [phase |-> "evaluate", id |-> calls', input |-> v.input,
                        options |-> v.options, outcome |-> Null,
                        traced |-> FALSE, feedback |-> FALSE, feedbackId |-> Null]]
      BY <1>3 DEF Begin
    <2> DEFINE i == v.input
               new == [phase |-> "evaluate", id |-> calls', input |-> i,
                       options |-> v.options, outcome |-> Null,
                       traced |-> FALSE, feedback |-> FALSE, feedbackId |-> Null]
    <2>2. /\ call[c] = Idle /\ calls < MaxCalls /\ calls' = calls + 1
          /\ calls' \in Nat /\ returned' = returned
      BY <1>3 DEF Begin, RunInv, TypeOK
    <2>3. new \in Calls /\ Task(c)' = [id |-> calls', input |-> i]
          /\ call'[c] = new /\ \A d \in Callers \ {c} : call'[d] = call[d]
      BY <1>3, <2>1, <2>2, InvocationType DEF Calls, Phases, RunInv, TypeOK, Task
    <2>4. new # Idle /\ i \in Inputs
      BY <1>3, <2>1, <2>3, NullAssumption, InvocationType DEF Idle
    <2> HIDE DEF new, i
    <2>5. Under' = Under \cup {c} /\ \A d \in Under : Task(d)' = Task(d)
      BY <2>2, <2>3, <2>4 DEF Under, Task
    <2>6. Tasks' = Tasks \cup {[id |-> calls', input |-> i]}
      BY <2>3, <2>5 DEF Tasks
    <2>7. Pure!Invoke(i)
      BY <2>2, <2>6 DEF Pure!Invoke, Tasks, Task
    <2>8. QED
      BY <2>4, <2>7 DEF Pure!Next
  <1>4. ASSUME NEW c \in Callers, Evaluate(c)
        PROVE  Stutters
    <2>1. UNCHANGED <<calls, returned>>
      BY <1>4 DEF Evaluate
    <2>2. QED
      BY <1>4, <2>1, EvaluateKeepsRun, GoingOnKeepsTasks
  <1>5. ASSUME NEW c \in Callers, NEW s \in Sinks, Emit(c, s)
        PROVE  Stutters
    <2>1. UNCHANGED <<calls, returned>>
      BY <1>5 DEF Emit
    <2>2. QED
      BY <1>5, <2>1, EmitKeepsRun, GoingOnKeepsTasks
  <1>6. ASSUME NEW c \in Callers, Return(c)
        PROVE  Pure!Next
    <2>1. /\ call[c] # Idle /\ call'[c] = Idle /\ calls' = calls
          /\ \A d \in Callers \ {c} : call'[d] = call[d]
          /\ returned' = returned \cup {[id |-> call[c].id, input |-> call[c].input,
                                         outcome |-> call[c].outcome]}
      BY <1>6 DEF Return, InPhase, RunInv, TypeOK
    <2>2. call[c].input \in Inputs /\ call[c].outcome = Outcome(call[c].input)
      BY <1>6, <2>1, CallType DEF Return, InPhase, RunInv, Evaluated
    <2>3. Tasks' = Tasks \ {Task(c)} /\ Task(c) \in Tasks
      BY <2>1, EndingRemoves
    <2>4. Task(c).id = call[c].id /\ Task(c).input = call[c].input
      BY DEF Task
    <2>5. QED
      BY <2>1, <2>2, <2>3, <2>4, EndingIsPure
  <1>7. ASSUME NEW c \in Callers, Crash(c)
        PROVE  Pure!Next
    <2>1. /\ call[c] # Idle /\ call'[c] = Idle /\ UNCHANGED <<calls, returned>>
          /\ \A d \in Callers \ {c} : call'[d] = call[d]
      BY <1>7 DEF Crash, RunInv, TypeOK
    <2>2. Tasks' = Tasks \ {Task(c)} /\ Task(c) \in Tasks
      BY <2>1, EndingRemoves
    <2>3. QED
      BY <2>1, <2>2, EndingIsPure
  <1> HIDE DEF Stutters
  <1>8. QED
    BY <1>1, <1>2, <1>3, <1>4, <1>5, <1>6, <1>7 DEF Next, Step

\* With all its emissions, their failures and the crashes of other processes, the
\* runtime gives its callers what one that emits nothing gives them.
THEOREM RunRefinement == Spec => ImplementsPureRun
  <1>1. Init => Pure!Init
    BY DEF Init, Pure!Init, Under
  <1>2. QED
    BY <1>1, RunInvariant, StepsArePure, PTL DEF Spec, ImplementsPureRun, Pure!Spec

-----------------------------------------------------------------------------
(* Links.                                                                    *)

\* The invocations whose inspection entry says that their record was emitted.
Claimed == {e.id : e \in {e \in Said("inspection") : e.feedback}}

Linked      == {"ledger", "feedback"}
Links(f)    == IF f = "ledger" THEN TraceLinks ELSE Claimed
Marked(c, f) == IF f = "ledger" THEN call[c].traced ELSE call[c].feedback

\* The invocations that took their append to a file for done, and whose line is
\* nowhere to be read.
Acked(f) == Links(f) \cup {call[c].id : c \in {d \in Under : Marked(d, f)}}
Lost(f)  == Acked(f) \ IdsIn(f)

\* Each of them was glued to the piece of a torn line.
LinkInv ==
  \A f \in Linked : IsFiniteSet(Lost(f)) /\ Cardinality(Lost(f)) <= Cardinality(Garbles(f))

\* At first nothing was taken for done.
LEMMA InitLinks == Init => LinkInv
  <1> SUFFICES ASSUME Init, NEW f \in Linked
               PROVE  IsFiniteSet(Lost(f)) /\ Cardinality(Lost(f)) <= Cardinality(Garbles(f))
    BY DEF LinkInv
  <1>1. \A s \in Sinks : Readable(sink[s]) = {} /\ DOMAIN sink[s].lines = {}
    BY DEF Init, Readable, EmptyLog
  <1>2. Lost(f) = {} /\ Garbles(f) = {}
    BY <1>1 DEF Init, Lost, Acked, Links, Under, TraceLinks, Claimed, Said, Garbles,
                Linked, Sinks
  <1>3. QED
    BY <1>2, FS_EmptySet

\* There are finitely many lines that cannot be read.
LEMMA GarblesAreFinite ==
  ASSUME TypeOK, NEW s \in Sinks
  PROVE  IsFiniteSet(Garbles(s))
  <1>1. sink[s] \in LogOf(EntriesOf(s))
    BY DEF TypeOK
  <1>2. QED
    BY <1>1, UnreadableIsFinite DEF Garbles

\* An invocation that begins has nothing done, one that goes on nothing more, and
\* of one that ends what it took for done is forgotten, unless linked to.
LEMMA NothingMoreAcked ==
  ASSUME LinkInv, RunInv, sink' = sink,
         \A c \in Callers : call'[c] # Idle =>
           /\ call'[c].traced => call[c] # Idle /\ call[c].traced /\ call'[c].id = call[c].id
           /\ call'[c].feedback => call[c] # Idle /\ call[c].feedback /\ call'[c].id = call[c].id
  PROVE  LinkInv'
  <1>1. \A f \in Linked : Links(f)' = Links(f) /\ IdsIn(f)' = IdsIn(f) /\ Garbles(f)' = Garbles(f)
    BY DEF Links, TraceLinks, Claimed, IdsIn, Said, Garbles
  <1>2. \A f \in Linked : Lost(f)' \subseteq Lost(f)
    BY <1>1 DEF Lost, Acked, Marked, Under
  <1>3. ASSUME NEW f \in Linked
        PROVE  IsFiniteSet(Lost(f))' /\ (Cardinality(Lost(f)) <= Cardinality(Garbles(f)))'
    <2>1. IsFiniteSet(Lost(f)) /\ Cardinality(Lost(f)) <= Cardinality(Garbles(f))
      BY <1>3 DEF LinkInv
    <2>2. /\ IsFiniteSet(Lost(f)') /\ Cardinality(Lost(f)') <= Cardinality(Lost(f))
      BY <1>2, <1>3, <2>1, FS_Subset
    <2>3. IsFiniteSet(Garbles(f))
      BY <1>3, GarblesAreFinite DEF RunInv, Linked, Sinks
    <2>4. /\ Cardinality(Lost(f)') \in Nat /\ Cardinality(Lost(f)) \in Nat
          /\ Cardinality(Garbles(f)) \in Nat
      BY <2>1, <2>2, <2>3, FS_CardinalityType
    <2>5. Cardinality(Lost(f)') <= Cardinality(Garbles(f))
      BY <2>1, <2>2, <2>4
    <2>6. QED
      BY <1>1, <1>3, <2>2, <2>5
  <1>4. QED
    BY <1>3 DEF LinkInv
\* An append that is done is one more for which its file is asked, and has added
\* the line, or else a line of garbage.
LEMMA AppendKeepsLinks ==
  ASSUME LinkInv, RunInv, NEW c \in Callers, NEW s \in Sinks, InPhase(c, s),
         NEW written \in BOOLEAN, NEW log \in FailedAppends(sink[s], EntryFor(c, s)),
         sink' = [sink EXCEPT ![s] = log],
         written => log = Appended(sink[s], EntryFor(c, s)),
         \A d \in Callers \ {c} : call'[d] = call[d],
         call'[c] # Idle =>
           /\ call'[c].id = call[c].id
           /\ call'[c].traced => call[c].traced \/ (s = "ledger" /\ written)
           /\ call'[c].feedback => call[c].feedback \/ (s = "feedback" /\ written)
  PROVE  LinkInv'
  <1>1. /\ sink'[s] = log /\ \A t \in Sinks \ {s} : sink'[t] = sink[t]
        /\ sink[s] \in LogOf(EntriesOf(s)) /\ c \in Under /\ call[c].phase = s
    BY DEF RunInv, TypeOK, Under, InPhase
  <1>2. /\ \A i \in Readable(sink[s]) : i \in Readable(log) /\ log.lines[i] = sink[s].lines[i]
        /\ Garbles(s) \subseteq DOMAIN log.lines \ Readable(log)
        /\ IsFiniteSet(DOMAIN log.lines \ Readable(log))
        /\ written =>
             \/ \E i \in Readable(log) : log.lines[i] = EntryFor(c, s)
             \/ \E i : i \notin Garbles(s) /\ DOMAIN log.lines \ Readable(log) = Garbles(s) \cup {i}
    <2> DEFINE old == sink[s]
               entry == EntryFor(c, s)
    <2>1. old \in LogOf(EntriesOf(s)) /\ log \in FailedAppends(old, entry)
      BY <1>1
    <2>2. written => log = Appended(old, entry)
      OBVIOUS
    <2>3. Garbles(s) = DOMAIN old.lines \ Readable(old)
      BY DEF Garbles
    <2> HIDE DEF old, entry
    <2>4. /\ \A i \in Readable(old) : i \in Readable(log) /\ log.lines[i] = old.lines[i]
          /\ DOMAIN old.lines \ Readable(old) \subseteq DOMAIN log.lines \ Readable(log)
          /\ IsFiniteSet(DOMAIN log.lines \ Readable(log))
      BY <2>1, LinesStay
    <2>5. log = Appended(old, entry) =>
            \/ \E i \in Readable(log) : log.lines[i] = entry
            \/ \E i : /\ i \notin DOMAIN old.lines \ Readable(old)
                      /\ DOMAIN log.lines \ Readable(log) =
                           (DOMAIN old.lines \ Readable(old)) \cup {i}
      BY ZenonT(60), <2>1, LinesStay
    <2>6. QED
      BY <2>2, <2>3, <2>4, <2>5 DEF old, entry
  <1>3. \A t \in Sinks : /\ IdsIn(t) \subseteq IdsIn(t)'
                         /\ Garbles(t) \subseteq Garbles(t)' /\ IsFiniteSet(Garbles(t)')
    <2> SUFFICES ASSUME NEW t \in Sinks
                 PROVE  /\ IdsIn(t) \subseteq IdsIn(t)'
                        /\ Garbles(t) \subseteq Garbles(t)' /\ IsFiniteSet(Garbles(t)')
      OBVIOUS
    <2>1. CASE t = s
      BY SMTT(30), <1>1, <1>2, <2>1 DEF IdsIn, Said, Garbles
    <2>2. CASE t # s
      <3>1. IsFiniteSet(Garbles(t))
        BY GarblesAreFinite DEF RunInv
      <3>2. QED
        BY <1>1, <2>2, <3>1 DEF IdsIn, Said, Garbles
    <2>3. QED
      BY <2>1, <2>2
  <1>4. \A t \in Sinks : \A e \in Said(t)' : e \in Said(t) \/ (t = s /\ e = EntryFor(c, s))
    <2>1. \A t \in Sinks : \A i \in Readable(sink'[t]) :
            \/ i \in Readable(sink[t]) /\ sink'[t].lines[i] = sink[t].lines[i]
            \/ /\ t = s /\ i = Len(sink[s].lines) + 1
               /\ sink'[t].lines[i] = EntryFor(c, s)
      BY LinesAfterAppend
    <2>2. QED
      BY <2>1 DEF Said
  <1>5. /\ EntryFor(c, s).id = call[c].id
        /\ s \in {"feedback", "inspection"} => EntryFor(c, s).traced = call[c].traced
        /\ s = "inspection" => EntryFor(c, s).feedback = call[c].feedback
    BY DEF EntryFor
  <1>6. \A f \in Linked : Links(f)' \subseteq Acked(f)
    <2>1. TraceLinks' \subseteq Acked("ledger")
      <3> SUFFICES ASSUME NEW t \in {"feedback", "inspection"}, NEW e \in Said(t)', e.traced
                   PROVE  e.id \in Acked("ledger")
        BY DEF TraceLinks
      <3>1. CASE e \in Said(t)
        BY <3>1 DEF Acked, Links, TraceLinks
      <3>2. CASE t = s /\ e = EntryFor(c, s)
        BY <1>1, <1>5, <3>2 DEF Acked, Marked
      <3>3. QED
        BY <1>4, <3>1, <3>2 DEF Sinks
    <2>2. Claimed' \subseteq Acked("feedback")
      <3> SUFFICES ASSUME NEW e \in Said("inspection")', e.feedback
                   PROVE  e.id \in Acked("feedback")
        BY DEF Claimed
      <3>1. CASE e \in Said("inspection")
        BY <3>1 DEF Acked, Links, Claimed
      <3>2. CASE s = "inspection" /\ e = EntryFor(c, s)
        BY <1>1, <1>5, <3>2 DEF Acked, Marked
      <3>3. QED
        BY <1>4, <3>1, <3>2 DEF Sinks
    <2>3. QED
      BY <2>1, <2>2 DEF Links, Linked
  <1>7. ASSUME NEW f \in Linked, NEW x \in Acked(f)'
        PROVE  x \in Acked(f) \/ (f = s /\ written /\ x = call[c].id)
    <2>1. CASE x \in Links(f)'
      BY <1>6, <2>1
    <2>2. CASE x \notin Links(f)'
      <3>1. PICK d \in Callers : call'[d] # Idle /\ Marked(d, f)' /\ x = call'[d].id
        BY <1>7, <2>2 DEF Acked, Under
      <3>2. CASE d # c
        BY <3>1, <3>2 DEF Acked, Under, Marked
      <3>3. CASE d = c
        BY <1>1, <1>7, <3>1, <3>3 DEF Acked, Under, Marked, Linked
      <3>4. QED
        BY <3>2, <3>3
    <2>3. QED
      BY <2>1, <2>2
  <1>8. ASSUME NEW f \in Linked
        PROVE  \/ Lost(f)' \subseteq Lost(f)
               \/ \E x, i : /\ Lost(f)' \subseteq Lost(f) \cup {x}
                            /\ i \notin Garbles(f) /\ Garbles(f)' = Garbles(f) \cup {i}
    <2>1. f \in Sinks
      BY <1>8 DEF Linked, Sinks
    <2>2. Lost(f)' \subseteq Lost(f) \cup {call[c].id}
      BY <1>3, <1>7, <1>8, <2>1 DEF Lost
    <2>3. CASE f = s /\ written
      <3>1. ASSUME NEW i \in Readable(log), log.lines[i] = EntryFor(c, s)
            PROVE  Lost(f)' \subseteq Lost(f)
        <4>1. call[c].id \in IdsIn(f)'
          BY <1>1, <1>5, <2>3, <3>1 DEF IdsIn, Said
        <4>2. QED
          BY <2>2, <4>1 DEF Lost
      <3>2. Garbles(f)' = DOMAIN log.lines \ Readable(log)
        BY <1>1, <2>3 DEF Garbles
      <3>3. QED
        BY <1>2, <2>2, <2>3, <3>1, <3>2
    <2>4. CASE ~(f = s /\ written)
      BY <1>3, <1>7, <1>8, <2>1, <2>4 DEF Lost
    <2>5. QED
      BY <2>3, <2>4
  <1>9. ASSUME NEW f \in Linked
        PROVE  IsFiniteSet(Lost(f)') /\ Cardinality(Lost(f)') <= Cardinality(Garbles(f)')
    <2>1. /\ IsFiniteSet(Lost(f)) /\ Cardinality(Lost(f)) <= Cardinality(Garbles(f))
          /\ f \in Sinks
      BY <1>9 DEF LinkInv, Linked, Sinks
    <2>2. QED
      BY <1>3, <1>8, <1>9, <2>1, LostCounted
  <1>10. QED
    BY <1>9 DEF LinkInv

\* Every step keeps the count of what is lost.
LEMMA NextKeepsLinks == RunInv /\ LinkInv /\ [Next]_vars => LinkInv'
  <1> SUFFICES ASSUME RunInv, LinkInv, [Next]_vars
               PROVE  LinkInv'
    OBVIOUS
  <1>1. call \in [Callers -> Calls \cup {Idle}]
    BY DEF RunInv, TypeOK
  <1>2. CASE UNCHANGED vars
    BY <1>2, NothingMoreAcked DEF vars
  <1>3. ASSUME NEW c \in Callers, Begin(c)
        PROVE  LinkInv'
    <2>1. /\ sink' = sink /\ \A d \in Callers \ {c} : call'[d] = call[d]
          /\ call'[c].traced = FALSE /\ call'[c].feedback = FALSE
      BY <1>1, <1>3 DEF Begin
    <2>2. QED
      BY <2>1, NothingMoreAcked
  <1>4. ASSUME NEW c \in Callers, Evaluate(c)
        PROVE  LinkInv'
    <2>1. call[c] # Idle /\ call[c] \in Calls /\ sink' = sink
      BY <1>1, <1>4 DEF Evaluate, InPhase
    <2>2. /\ \A d \in Callers \ {c} : call'[d] = call[d]
          /\ call'[c].traced = call[c].traced /\ call'[c].feedback = call[c].feedback
          /\ call'[c].id = call[c].id
      BY <1>1, <1>4, <2>1 DEF Evaluate, Calls
    <2>3. QED
      BY <2>1, <2>2, NothingMoreAcked
  <1>5. ASSUME NEW c \in Callers, NEW s \in Sinks, Emit(c, s)
        PROVE  LinkInv'
    <2>1. InPhase(c, s) /\ call[c] # Idle /\ call[c] \in Calls
      BY <1>1, <1>5 DEF Emit, InPhase
    <2>2. PICK written \in BOOLEAN :
            /\ \E log \in IF written THEN {Appended(sink[s], EntryFor(c, s))}
                                     ELSE FailedAppends(sink[s], EntryFor(c, s)) :
                 sink' = [sink EXCEPT ![s] = log]
            /\ call' = [call EXCEPT ![c].phase = Onward(c, s, written),
                                    ![c].traced = Traced(c, s, written),
                                    ![c].feedback = FeedbackKept(c, s, written),
                                    ![c].feedbackId = FeedbackId(c, s, written),
                                    ![c].outcome = OutcomeAfter(c, s, written)]
      BY <1>5 DEF Emit
    <2>3. PICK log \in FailedAppends(sink[s], EntryFor(c, s)) :
            /\ sink' = [sink EXCEPT ![s] = log]
            /\ written => log = Appended(sink[s], EntryFor(c, s))
      BY <2>2 DEF FailedAppends
    <2>4. /\ \A d \in Callers \ {c} : call'[d] = call[d]
          /\ call'[c].id = call[c].id
          /\ call'[c].traced = Traced(c, s, written)
          /\ call'[c].feedback = FeedbackKept(c, s, written)
      BY <1>1, <2>1, <2>2 DEF Calls
    <2>5. /\ call'[c].traced => call[c].traced \/ (s = "ledger" /\ written)
          /\ call'[c].feedback => call[c].feedback \/ (s = "feedback" /\ written)
      BY <2>4 DEF Traced, FeedbackKept
    <2>6. QED
      BY <2>1, <2>3, <2>4, <2>5, AppendKeepsLinks
  <1>6. ASSUME NEW c \in Callers, Return(c) \/ (Crash(c) /\ sink' = sink)
        PROVE  LinkInv'
    <2>1. sink' = sink /\ call'[c] = Idle /\ \A d \in Callers \ {c} : call'[d] = call[d]
      BY <1>1, <1>6 DEF Return, Crash
    <2>2. QED
      BY <2>1, NothingMoreAcked
  <1>7. ASSUME NEW c \in Callers, Crash(c), sink' # sink
        PROVE  LinkInv'
    <2>1. PICK s \in Sinks : /\ call[c].phase = s
                            /\ \E log \in FailedAppends(sink[s], EntryFor(c, s)) :
                                 sink' = [sink EXCEPT ![s] = log]
      BY <1>7 DEF Crash
    <2>2. /\ InPhase(c, s) /\ call'[c] = Idle
          /\ \A d \in Callers \ {c} : call'[d] = call[d]
      BY <1>1, <1>7, <2>1 DEF Crash, InPhase
    <2>3. PICK log \in FailedAppends(sink[s], EntryFor(c, s)) : sink' = [sink EXCEPT ![s] = log]
      BY <2>1
    <2>4. FALSE \in BOOLEAN
      OBVIOUS
    <2>5. QED
      BY <2>2, <2>3, <2>4, AppendKeepsLinks
  <1>8. QED
    BY <1>2, <1>3, <1>4, <1>5, <1>6, <1>7 DEF Next, Step

-----------------------------------------------------------------------------
(* Whose record a link is to.                                                *)

\* An invocation that took its FeedbackTensor append for done, or whose record can be
\* read, links to its own record, and so does its inspection entry.
OwnLinks ==
  /\ \A c \in Callers :
       call[c] # Idle /\ (call[c].feedback \/ call[c].id \in IdsIn("feedback")) =>
         call[c].feedbackId = call[c].id
  /\ \A e \in Said("inspection") :
       e.feedback \/ e.id \in IdsIn("feedback") => e.feedbackId = e.id

LEMMA InitOwnLinks == Init => OwnLinks
  <1> SUFFICES ASSUME Init
               PROVE  OwnLinks
    OBVIOUS
  <1>1. Said("inspection") = {}
    BY DEF Init, Said, Readable, EmptyLog, Sinks
  <1>2. QED
    BY <1>1 DEF Init, OwnLinks

\* Where the files stay, an invocation keeps its link, or has emitted nothing.
LEMMA StayingKeepsOwnLinks ==
  ASSUME OwnLinks, sink' = sink,
         \A c \in Callers : call'[c] # Idle =>
           \/ /\ call[c] # Idle /\ call'[c].feedback = call[c].feedback
              /\ call'[c].id = call[c].id /\ call'[c].feedbackId = call[c].feedbackId
           \/ ~call'[c].feedback /\ call'[c].id \notin IdsIn("feedback")
  PROVE  OwnLinks'
  <1>1. IdsIn("feedback")' = IdsIn("feedback") /\ Said("inspection")' = Said("inspection")
    BY DEF IdsIn, Said
  <1>2. QED
    BY <1>1 DEF OwnLinks

\* An append adds at most a record of the caller: to FeedbackTensor, when it has no
\* inspection entry yet and is about to keep the link, or an entry with the link it
\* has kept.
LEMMA AppendKeepsOwnLinks ==
  ASSUME OwnLinks, RunInv, NEW c \in Callers, NEW s \in Sinks, InPhase(c, s),
         NEW log \in FailedAppends(sink[s], EntryFor(c, s)),
         sink' = [sink EXCEPT ![s] = log],
         \A d \in Callers \ {c} : call'[d] = call[d],
         call'[c] # Idle =>
           /\ call'[c].id = call[c].id
           /\ IF s = "feedback" THEN call'[c].feedbackId = call[c].id
              ELSE call'[c].feedback = call[c].feedback
                   /\ call'[c].feedbackId = call[c].feedbackId
  PROVE  OwnLinks'
  <1>1. call[c] # Idle /\ call[c].phase = s
    BY DEF InPhase
  <1>2. \A t \in Sinks : \A e \in Said(t)' : e \in Said(t) \/ (t = s /\ e = EntryFor(c, s))
    <2>1. \A t \in Sinks : \A i \in Readable(sink'[t]) :
            \/ i \in Readable(sink[t]) /\ sink'[t].lines[i] = sink[t].lines[i]
            \/ /\ t = s /\ i = Len(sink[s].lines) + 1
               /\ sink'[t].lines[i] = EntryFor(c, s)
      BY LinesAfterAppend
    <2>2. QED
      BY <2>1 DEF Said
  <1>3. /\ EntryFor(c, s).id = call[c].id
        /\ s = "inspection" => /\ EntryFor(c, s).feedback = call[c].feedback
                               /\ EntryFor(c, s).feedbackId = call[c].feedbackId
    BY DEF EntryFor
  <1>4. ASSUME NEW x \in IdsIn("feedback")'
        PROVE  x \in IdsIn("feedback") \/ (s = "feedback" /\ x = call[c].id)
    <2>1. PICK e \in Said("feedback")' : x = e.id
      BY <1>4 DEF IdsIn
    <2>2. QED
      BY <1>2, <1>3, <2>1 DEF IdsIn, Sinks
  <1>5. \A d \in Callers \ {c} : call[d] # Idle => call[d].id # call[c].id
    BY <1>1 DEF RunInv, IdsApart
  <1>6. ASSUME NEW d \in Callers, call'[d] # Idle,
               call'[d].feedback \/ call'[d].id \in IdsIn("feedback")'
        PROVE  call'[d].feedbackId = call'[d].id
    <2>1. CASE d # c
      BY <1>4, <1>5, <1>6, <2>1 DEF OwnLinks
    <2>2. CASE d = c
      BY <1>1, <1>4, <1>6, <2>2 DEF OwnLinks
    <2>3. QED
      BY <2>1, <2>2
  <1>7. ASSUME NEW e \in Said("inspection")', e.feedback \/ e.id \in IdsIn("feedback")'
        PROVE  e.feedbackId = e.id
    <2>1. CASE e \in Said("inspection")
      <3>1. s = "feedback" => e.id # call[c].id
        <4>1. ~(Rank("feedback") > Rank("inspection")) /\ "inspection" \in Sinks
          BY DEF Rank, Sinks
        <4>2. PICK i \in Readable(sink["inspection"]) : e = sink["inspection"].lines[i]
          BY <2>1 DEF Said
        <4>3. LineKnown("inspection", e, c)
          BY <1>1, <4>1, <4>2 DEF RunInv, LinesKnown
        <4>4. QED
          BY <1>1, <4>1, <4>3 DEF LineKnown
      <3>2. QED
        BY <1>4, <1>7, <2>1, <3>1 DEF OwnLinks
    <2>2. CASE s = "inspection" /\ e = EntryFor(c, s)
      BY <1>1, <1>3, <1>4, <1>7, <2>2 DEF OwnLinks
    <2>3. QED
      BY <1>2, <2>1, <2>2 DEF Sinks
  <1>8. QED
    BY <1>6, <1>7 DEF OwnLinks

\* An invocation that begins has an id that no record has.
LEMMA BeginsUnrecorded ==
  ASSUME RunInv, NEW c \in Callers, Begin(c)
  PROVE  ~call'[c].feedback /\ call'[c].id \notin IdsIn("feedback")
  <1>1. calls \in Nat /\ ~call'[c].feedback /\ call'[c].id = calls + 1
    BY DEF Begin, RunInv, TypeOK
  <1>2. \A i \in Readable(sink["feedback"]) :
          sink["feedback"].lines[i].id \in Nat /\ sink["feedback"].lines[i].id <= calls
    BY LineTypes DEF RunInv, LinesKnown, Sinks
  <1>3. QED
    BY <1>1, <1>2 DEF IdsIn, Said

\* Every step keeps the links own.
LEMMA NextKeepsOwnLinks == RunInv /\ OwnLinks /\ [Next]_vars => OwnLinks'
  <1> SUFFICES ASSUME RunInv, OwnLinks, [Next]_vars
               PROVE  OwnLinks'
    OBVIOUS
  <1>1. call \in [Callers -> Calls \cup {Idle}]
    BY DEF RunInv, TypeOK
  <1>2. CASE UNCHANGED vars
    BY <1>2, StayingKeepsOwnLinks DEF vars
  <1>3. ASSUME NEW c \in Callers, Begin(c)
        PROVE  OwnLinks'
    <2>1. sink' = sink /\ \A d \in Callers \ {c} : call'[d] = call[d]
      BY <1>1, <1>3 DEF Begin
    <2>2. QED
      BY <1>3, <2>1, BeginsUnrecorded, StayingKeepsOwnLinks
  <1>4. ASSUME NEW c \in Callers, Evaluate(c)
        PROVE  OwnLinks'
    <2>1. call[c] # Idle /\ call[c] \in Calls /\ sink' = sink
      BY <1>1, <1>4 DEF Evaluate, InPhase
    <2>2. /\ \A d \in Callers \ {c} : call'[d] = call[d]
          /\ call'[c].feedback = call[c].feedback /\ call'[c].id = call[c].id
          /\ call'[c].feedbackId = call[c].feedbackId
      BY <1>1, <1>4, <2>1 DEF Evaluate, Calls
    <2>3. QED
      BY <2>1, <2>2, StayingKeepsOwnLinks
  <1>5. ASSUME NEW c \in Callers, NEW s \in Sinks, Emit(c, s)
        PROVE  OwnLinks'
    <2>1. InPhase(c, s) /\ call[c] # Idle /\ call[c] \in Calls
      BY <1>1, <1>5 DEF Emit, InPhase
    <2>2. PICK written \in BOOLEAN :
            /\ \E log \in IF written THEN {Appended(sink[s], EntryFor(c, s))}
                                     ELSE FailedAppends(sink[s], EntryFor(c, s)) :
                 sink' = [sink EXCEPT ![s] = log]
            /\ call' = [call EXCEPT ![c].phase = Onward(c, s, written),
                                    ![c].traced = Traced(c, s, written),
                                    ![c].feedback = FeedbackKept(c, s, written),
                                    ![c].feedbackId = FeedbackId(c, s, written),
                                    ![c].outcome = OutcomeAfter(c, s, written)]
      BY <1>5 DEF Emit
    <2>3. PICK log \in FailedAppends(sink[s], EntryFor(c, s)) :
            sink' = [sink EXCEPT ![s] = log]
      BY <2>2 DEF FailedAppends
    <2>4. /\ \A d \in Callers \ {c} : call'[d] = call[d]
          /\ call'[c].id = call[c].id
          /\ call'[c].feedback = FeedbackKept(c, s, written)
          /\ call'[c].feedbackId = FeedbackId(c, s, written)
      BY <1>1, <2>1, <2>2 DEF Calls
    <2>5. /\ s = "feedback" => call'[c].feedbackId = call[c].id
          /\ s # "feedback" => /\ call'[c].feedback = call[c].feedback
                               /\ call'[c].feedbackId = call[c].feedbackId
      BY <2>1, <2>4 DEF FeedbackKept, FeedbackId, Calls
    <2>6. QED
      BY <2>1, <2>3, <2>4, <2>5, AppendKeepsOwnLinks
  <1>6. ASSUME NEW c \in Callers, Return(c) \/ (Crash(c) /\ sink' = sink)
        PROVE  OwnLinks'
    <2>1. sink' = sink /\ call'[c] = Idle /\ \A d \in Callers \ {c} : call'[d] = call[d]
      BY <1>1, <1>6 DEF Return, Crash
    <2>2. QED
      BY <2>1, StayingKeepsOwnLinks
  <1>7. ASSUME NEW c \in Callers, Crash(c), sink' # sink
        PROVE  OwnLinks'
    <2>1. PICK s \in Sinks : /\ call[c].phase = s
                            /\ \E log \in FailedAppends(sink[s], EntryFor(c, s)) :
                                 sink' = [sink EXCEPT ![s] = log]
      BY <1>7 DEF Crash
    <2>2. /\ InPhase(c, s) /\ call'[c] = Idle
          /\ \A d \in Callers \ {c} : call'[d] = call[d]
      BY <1>1, <1>7, <2>1 DEF Crash, InPhase
    <2>3. PICK log \in FailedAppends(sink[s], EntryFor(c, s)) : sink' = [sink EXCEPT ![s] = log]
      BY <2>1
    <2>4. QED
      BY <2>2, <2>3, AppendKeepsOwnLinks
  <1>8. QED
    BY <1>2, <1>3, <1>4, <1>5, <1>6, <1>7 DEF Next, Step

\* trace_entry_id leads to a ledger record, and feedback_tensor.feedback_id of an entry
\* that says emitted to a FeedbackTensor record; of each no more lead nowhere than the
\* file has lines that cannot be read.  And a FeedbackTensor record that is there is
\* linked to by the inspection entry of its invocation, however many appends fail.
THEOREM LinksAreKept == Spec => []LinksResolve
  <1>1. Init => RunInv /\ LinkInv /\ OwnLinks
    BY InitRun, InitLinks, InitOwnLinks
  <1>2. RunInv /\ LinkInv /\ OwnLinks /\ [Next]_vars => (RunInv /\ LinkInv /\ OwnLinks)'
    BY NextKeepsRun, NextKeepsLinks, NextKeepsOwnLinks
  <1>3. RunInv /\ LinkInv /\ OwnLinks => LinksResolve
    <2> SUFFICES ASSUME RunInv, LinkInv, OwnLinks
                 PROVE  LinksResolve
      OBVIOUS
    <2>1. Promised \subseteq Claimed
      BY DEF Promised, Claimed, OwnLinks
    <2>2. ASSUME NEW f \in Linked, NEW L, L \subseteq Links(f)
          PROVE  Cardinality(L \ IdsIn(f)) <= Cardinality(Garbles(f))
      <3>1. IsFiniteSet(Lost(f)) /\ Cardinality(Lost(f)) <= Cardinality(Garbles(f))
        BY <2>2 DEF LinkInv
      <3>2. L \ IdsIn(f) \subseteq Lost(f)
        BY <2>2 DEF Lost, Acked
      <3>3. IsFiniteSet(Garbles(f))
        BY <2>2, GarblesAreFinite DEF RunInv, Linked, Sinks
      <3>4. QED
        BY <3>1, <3>2, <3>3, LostCounted
    <2>3. Cardinality(TraceLinks \ IdsIn("ledger")) <= Cardinality(Garbles("ledger"))
      BY <2>2 DEF Links, Linked
    <2>4. Cardinality(Promised \ IdsIn("feedback")) <= Cardinality(Garbles("feedback"))
      BY <2>1, <2>2 DEF Links, Linked
    <2>5. \A e \in Said("inspection"), f \in Said("feedback") :
            e.id = f.id => e.feedbackId = f.id
      BY DEF IdsIn, OwnLinks
    <2>6. QED
      BY <2>3, <2>4, <2>5 DEF LinksResolve
  <1>4. QED
    BY <1>1, <1>2, <1>3, PTL DEF Spec
=============================================================================
