---------------------------- MODULE RepairRules ----------------------------
(* The rule table of the rule-first repair loop.  A failure is its class,    *)
(* the stage and the artifact it comes from, and what the rules look for in  *)
(* its excerpt, its marks.                                                   *)
EXTENDS Integers, FiniteSets

CONSTANT Null

Classes ==
  {"parse", "schema_contract", "policy_gate", "capability_denied",
   "deterministic_runtime", "stochastic_extraction_uncertainty"}

Stages == {"compile", "contract_load", "policy_gate", "runtime", "extraction"}

Artifacts ==
  {"ls_source", "semantic_ir", "policy_profile", "capability_manifest",
   "runtime_event", "model_output"}

\* Exclusive marks: a goal with text in it and one without, a version that is
\* the expected one but for blanks and one that is another.
Marks ==
  {"unclosed_goal", "bare_goal", "padded_version", "other_version",
   "tokens_exceeded_with_fallback", "fallback_named", "production_delete_denied",
   "write_where_read", "network_where_none", "retryable_timeout",
   "node_output_missing", "below_threshold", "candidates_overlap"}

FailureType ==
  [class : Classes, stage : Stages, artifact : Artifacts, marks : SUBSET Marks]

Does == {"repair", "retry_once", "retry", "escalate", "stop"}

Rule(class, stage, artifacts, mark, does) ==
  [class |-> class, stage |-> stage, artifacts |-> artifacts, mark |-> mark,
   does |-> does]

REPAIR_RULES == <<
  Rule("parse", "compile", {"ls_source"}, "unclosed_goal", "repair"),
  Rule("parse", "compile", {"ls_source"}, "bare_goal", "escalate"),
  Rule("schema_contract", "contract_load", {"semantic_ir", "policy_profile"},
       "padded_version", "repair"),
  Rule("schema_contract", "contract_load", {"semantic_ir", "policy_profile"},
       "other_version", "escalate"),
  Rule("policy_gate", "policy_gate", {"policy_profile"},
       "tokens_exceeded_with_fallback", "repair"),
  Rule("policy_gate", "policy_gate", {"policy_profile"},
       "production_delete_denied", "stop"),
  Rule("capability_denied", "runtime", {"capability_manifest"},
       "write_where_read", "repair"),
  Rule("capability_denied", "runtime", {"capability_manifest"},
       "network_where_none", "escalate"),
  Rule("deterministic_runtime", "runtime", {"runtime_event"},
       "retryable_timeout", "retry_once"),
  Rule("deterministic_runtime", "runtime", {"runtime_event"},
       "node_output_missing", "stop"),
  Rule("stochastic_extraction_uncertainty", "extraction", {"model_output"},
       "below_threshold", "retry_once"),
  Rule("stochastic_extraction_uncertainty", "extraction", {"model_output"},
       "candidates_overlap", "retry") >>

RuleIndices == DOMAIN REPAIR_RULES

Matches(i, failure) ==
  /\ REPAIR_RULES[i].class = failure.class
  /\ REPAIR_RULES[i].stage = failure.stage
  /\ failure.artifact \in REPAIR_RULES[i].artifacts
  /\ REPAIR_RULES[i].mark \in failure.marks

Matching(failure) == {i \in RuleIndices : Matches(i, failure)}

FirstMatching(failure) ==
  CHOOSE i \in Matching(failure) : \A j \in Matching(failure) : i <= j

Outcomes == {"repaired", "retry", "escalate", "stop"}

\* A fallback plan that is mentioned but cannot be parsed is not applied.
Unparseable(i, failure) ==
  /\ REPAIR_RULES[i].mark = "tokens_exceeded_with_fallback"
  /\ "fallback_named" \notin failure.marks

AsksAgain(i, attempt) ==
  \/ REPAIR_RULES[i].does = "retry"
  \/ REPAIR_RULES[i].does = "retry_once" /\ attempt < 2

Apply(i, failure, attempt) ==
  IF REPAIR_RULES[i].does \in {"stop", "escalate"} THEN REPAIR_RULES[i].does
  ELSE IF Unparseable(i, failure) THEN "escalate"
  ELSE IF AsksAgain(i, attempt) THEN "retry"
  ELSE "repaired"
=============================================================================
