---------------------------- MODULE MCRepairLoop ----------------------------
(* Values for the constants of RepairLoop.                                   *)
EXTENDS RepairLoop

\* The place where the rules of a class look, and the marks they look for.
Home ==
  [class \in Classes |->
     CASE class = "parse"                -> <<"compile", "ls_source">>
       [] class = "schema_contract"      -> <<"contract_load", "semantic_ir">>
       [] class = "policy_gate"          -> <<"policy_gate", "policy_profile">>
       [] class = "capability_denied"    -> <<"runtime", "capability_manifest">>
       [] class = "deterministic_runtime" -> <<"runtime", "runtime_event">>
       [] OTHER                          -> <<"extraction", "model_output">>]

MarkSets ==
  [class \in Classes |->
     CASE class = "parse"                -> {{}, {"unclosed_goal"}, {"bare_goal"}}
       [] class = "schema_contract"      -> {{}, {"padded_version"}, {"other_version"}}
       [] class = "policy_gate"          ->
            SUBSET {"tokens_exceeded_with_fallback", "fallback_named",
                    "production_delete_denied"}
       [] class = "capability_denied"    ->
            SUBSET {"write_where_read", "network_where_none"}
       [] class = "deterministic_runtime" ->
            SUBSET {"retryable_timeout", "node_output_missing"}
       [] OTHER                          ->
            SUBSET {"below_threshold", "candidates_overlap"}]

FailureAt(class, place, marks) ==
  [class |-> class, stage |-> place[1], artifact |-> place[2], marks |-> marks]

\* Every class with every set of marks where its rules look, and with as many marks
\* as there can be elsewhere.
AtHome ==
  UNION {{FailureAt(class, Home[class], marks) : marks \in MarkSets[class]} :
           class \in Classes}
Elsewhere ==
  UNION {{FailureAt(class, place, marks) :
            place \in {<<"compile", "semantic_ir">>, <<"contract_load", "policy_profile">>},
            marks \in {m \in MarkSets[class] :
                         \A n \in MarkSets[class] : Cardinality(n) <= Cardinality(m)}} :
           class \in Classes}

\* The classes that have a hard stop, with every set of marks.
MaskedFailures ==
  {FailureAt("policy_gate", Home["policy_gate"], marks) :
     marks \in MarkSets["policy_gate"]}
  \cup
  {FailureAt("deterministic_runtime", Home["deterministic_runtime"], marks) :
     marks \in MarkSets["deterministic_runtime"]}

Option(max, feedback, inspection, report) ==
  [maxAttempts |-> max, feedback |-> feedback, inspection |-> inspection,
   report |-> report, traceEntryId |-> FALSE]

Quiet(max) == Option(max, FALSE, FALSE, FALSE)

Given(failures, options) ==
  {[failure |-> f, options |-> o] : f \in failures, o \in options}

Unclosed == FailureAt("parse", Home["parse"], {"unclosed_goal"})
BareGoal == FailureAt("parse", Home["parse"], {"bare_goal"})
TimedOut ==
  FailureAt("deterministic_runtime", Home["deterministic_runtime"], {"retryable_timeout"})

\* Failures that are told to nobody, under other limits than the default where a
\* rule may ask again.
ForVerdicts ==
  Given(AtHome \cup Elsewhere, {Quiet(Null)})
    \cup Given({f \in AtHome : f.class \in {"deterministic_runtime",
                                          "stochastic_extraction_uncertainty"}},
               {Quiet(1), Quiet(3), Quiet(10)})

\* One failure that is repaired, one that is escalated, and one that is retried and
\* then repaired, or stopped where the limit is one attempt.
ForSinks ==
  Given({TimedOut}, {Option(2, TRUE, TRUE, TRUE)})
    \cup Given({BareGoal}, {Option(2, FALSE, TRUE, FALSE)})
MoreForSinks ==
  Given({Unclosed}, {Option(2, TRUE, TRUE, TRUE)})
    \cup Given({TimedOut}, {Option(1, TRUE, FALSE, FALSE)})

\* One caller has every failure, the others some that the files are told of.
OneTriesEverything ==
  LET one == CHOOSE c \in Callers : TRUE
  IN [c \in Callers |-> IF c = one THEN ForVerdicts \cup ForSinks \cup MoreForSinks
                                   ELSE ForSinks]

Masked ==
  [c \in Callers |->
     Given(MaskedFailures, {Quiet(max) : max \in {Null, 10} \cup 1..4})]
=============================================================================
