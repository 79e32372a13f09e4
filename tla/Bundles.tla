------------------------------ MODULE Bundles ------------------------------
(* The PR bundle: which artifacts it accepts as the lineage of a patch run,  *)
(* the rollback it derives, its readiness, and what the apply/rollback       *)
(* controller's first gates make of it.                                      *)
EXTENDS Stages

\* An artifact: what it says, and the run id it was given.
Artifact(run, says) == [run |-> run, says |-> says]

Lineage(s, m, p) == [snapshot |-> s, mapping |-> m, plan |-> p]
Given(lineage)   == {stage \in DOMAIN lineage : lineage[stage] # Null}

\* One run id, and of two neighbours the later one made from the earlier one.
OneRun(lineage, patch) ==
  \A stage \in Given(lineage) : lineage[stage].run = patch.run

\* Mutant: the run ids are taken for enough.
MadeFromAnything(lineage, patch) == TRUE
MadeFrom(lineage, patch) ==
  /\ lineage.plan # Null => patch.says.input = lineage.plan.says
  /\ lineage.plan # Null /\ lineage.mapping # Null
       => lineage.plan.says.input = lineage.mapping.says
  /\ lineage.mapping # Null /\ lineage.snapshot # Null
       => lineage.mapping.says.input = lineage.snapshot.says

\* The edits of a plan in a lineage are refused outside the workspace.
Accepted(lineage, patch) ==
  /\ OneRun(lineage, patch)
  /\ MadeFrom(lineage, patch)
  /\ lineage.plan # Null => PathsOf(lineage.plan.says.edits) \cap Outside = {}

Complete(lineage) == Given(lineage) = DOMAIN lineage

-----------------------------------------------------------------------------
\* What a caller leaves as it is, or with FALSE takes away: the reference to
\* the evidence, the risks, the support of a rollback; and the instructions for
\* it, which a caller can also give.
BundleOptions ==
  [evidence : BOOLEAN, risks : BOOLEAN, rollback : BOOLEAN,
   instructions : {"default", "none", "given"}]

\* Mutant: a rollback repeats the edits from the last to the first.
SameOperation(operation) == operation
Opposite(operation) ==
  IF operation = "create" THEN "delete"
  ELSE IF operation = "delete" THEN "create" ELSE "modify"

\* The rollback of a list of edits, from the last to the first.
Reversed(edits) ==
  [i \in DOMAIN edits |->
     [path |-> edits[Len(edits) + 1 - i].path,
      operation |-> Opposite(edits[Len(edits) + 1 - i].operation)]]

PlanEdits(lineage) ==
  IF lineage.plan = Null THEN <<>> ELSE lineage.plan.says.edits

Supported(lineage, opts) == PlanEdits(lineage) # <<>> /\ opts.rollback
Instructed(lineage, opts) ==
  \/ opts.instructions = "given"
  \/ opts.instructions = "default" /\ Supported(lineage, opts)

Sections(lineage, patch, opts) ==
  LET found == patch.says.verification
  IN [patch_payload          |-> patch.says.edits # <<>>,
      risk_tradeoffs         |-> opts.risks,
      verification_link      |-> opts.evidence,
      verification_results   |->
        found.checksComplete /\ found.evidenceComplete /\ found.allPassed,
      rollback_package       |-> Supported(lineage, opts),
      rollback_instructions  |-> Instructed(lineage, opts),
      lineage_trace_complete |-> Complete(lineage)]

Missing(lineage, patch, opts) ==
  LET sections == Sections(lineage, patch, opts)
  IN {s \in DOMAIN sections : ~sections[s]}

\* Mutant: a bundle that is not ready takes over the outcome of its patch run.
ReadinessOfOutcome(lineage, patch, opts) ==
  IF Missing(lineage, patch, opts) = {} THEN Continue
  ELSE IF patch.says.verdict.decision # "continue" THEN patch.says.verdict
  ELSE Verdict("stop", "bundle_incomplete")
Readiness(lineage, patch, opts) ==
  LET found == patch.says.verification
  IN IF Missing(lineage, patch, opts) = {} THEN Continue
     ELSE IF ~found.checksComplete \/ ~found.evidenceComplete
     THEN Verdict("stop", "verification_incomplete")
     ELSE IF ~found.allPassed THEN Verdict("stop", "verification_failed")
     ELSE IF patch.says.verdict.decision = "stop"
     THEN Verdict("stop", patch.says.verdict.reason)
     ELSE IF ~Supported(lineage, opts)
     THEN Verdict("stop", "rollback_unavailable")
     ELSE Verdict("stop", "bundle_incomplete")

\* diff_plan_edits are the edits of the lineage's plan, which is what a
\* controller applies.
BundleOf(lineage, patch, opts) ==
  [lineage |-> lineage, patch |-> patch, edits |-> PlanEdits(lineage),
   rollback |->
     IF Supported(lineage, opts) THEN Reversed(PlanEdits(lineage)) ELSE <<>>,
   instructions |-> Instructed(lineage, opts),
   readiness |-> Readiness(lineage, patch, opts)]

-----------------------------------------------------------------------------
\* A bundle as the apply/rollback controller reads it.  One edit per path, or
\* it is refused.
Controller == INSTANCE ApplyGates WITH
                Paths <- {}, Contents <- {}, Absent <- "absent", Null <- "null"

Handed(bundle) ==
  [outcome |-> bundle.patch.says.verdict,
   readiness |-> bundle.readiness,
   checksComplete |-> bundle.patch.says.verification.checksComplete,
   evidenceComplete |-> bundle.patch.says.verification.evidenceComplete,
   allPassed |-> bundle.patch.says.verification.allPassed,
   rollback |-> [available |-> bundle.rollback # <<>> /\ bundle.instructions]]

Admitted(bundle) ==
  /\ Distinct(bundle.edits)
  /\ Controller!UpstreamGate(Handed(bundle)) = Controller!Pass
  /\ Controller!VerificationGate(Handed(bundle)) = Controller!Pass
  /\ Controller!RollbackAvailabilityGate("apply", Handed(bundle)) = Controller!Pass
=============================================================================
