----------------------------- MODULE ApplyGates -----------------------------
(***************************************************************************)
(* The decision half of runtime/src/apply-rollback.ts: the chain of gates  *)
(* createApplyRollbackRecordArtifact runs over a normalised PR bundle, the *)
(* caller's options, the previous apply record and the captured state,     *)
(* before it may touch a file.  Everything here is constant-level; the     *)
(* state machine that calls it is in ApplyRollback.                        *)
(*                                                                         *)
(* A path is the rank of its string in compareStableStrings order, so the  *)
(* code's sorted iteration is iteration in increasing order of path.       *)
(***************************************************************************)
EXTENDS Integers

CONSTANTS
  Paths,      \* workspace-relative paths, by rank in the stable string order
  Contents,   \* file contents, up to equality of SHA-256
  Absent,     \* the entry of a path at which there is no file
  Null        \* what is not there: an optional value, a path a snapshot
              \* says nothing about

ASSUME PathsAssumption == Paths \subseteq Nat
ASSUME MarksAssumption ==
  /\ Absent \notin Contents /\ Null \notin Contents
  /\ Absent # Null

Actions    == {"apply", "rollback"}
Decisions  == {"continue", "escalate", "stop"}
Operations == {"none", "create", "modify", "delete"}
Reasons    ==
  {"ok", "unsupported_input", "mapping_ambiguous", "mapping_low_confidence",
   "forbidden_path", "change_bound_exceeded", "conflict_detected",
   "verification_failed", "verification_incomplete", "policy_blocked",
   "rollback_unavailable", "undeclared_capability",
   "benchmark_quality_floor_failed", "benchmark_invalid_gain",
   "bundle_incomplete", "prior_apply_record_missing"}

Entry     == Contents \cup {Absent}
Snapshots == [Paths -> Entry \cup {Null}]

\* The paths a snapshot covers, and a snapshot of nothing.
Covered(snap) == {p \in Paths : snap[p] # Null}
EmptySnapshot == [p \in Paths |-> Null]

\* changedPaths: one edit per path, normalizePrBundleEdits refuses duplicates.
Changed(bundle) == {p \in Paths : bundle.edits[p] # "none"}

-----------------------------------------------------------------------------
(* Stage decisions.  A gate that has nothing to say returns Pass; `??' is  *)
(* the loop that takes the first gate with something to say.               *)

Verdict(d, r) == [decision |-> d, reason |-> r]
Pass          == Verdict("continue", "ok")
v ?? w        == IF v # Pass THEN v ELSE w

Verdicts == [decision : Decisions, reason : Reasons]

UpstreamGate(bundle) ==
  IF bundle.outcome.decision # "continue"
  THEN Verdict(bundle.outcome.decision, bundle.outcome.reason)
  ELSE IF bundle.readiness.decision # "continue"
  THEN Verdict("stop", bundle.readiness.reason)
  ELSE Pass

VerificationGate(bundle) ==
  IF ~bundle.checksComplete \/ ~bundle.evidenceComplete
  THEN Verdict("stop", "verification_incomplete")
  ELSE IF ~bundle.allPassed
  THEN Verdict("stop", "verification_failed")
  ELSE Pass

RollbackAvailabilityGate(action, bundle) ==
  IF action = "apply" /\ ~bundle.rollback.available
  THEN Verdict("stop", "rollback_unavailable")
  ELSE Pass

\* The previous record must be of this bundle and carry a usable rollback.
\* A rollback without any record never gets here: normalisation throws.
RollbackInputsGate(bundle, prior) ==
  IF prior.bundle # bundle.id
  THEN Verdict("stop", "conflict_detected")
  ELSE IF ~prior.rollback.available \/ prior.rollback.strategy = Null
  THEN Verdict("stop", "rollback_unavailable")
  ELSE IF /\ bundle.rollback.digest # Null
          /\ prior.rollback.digest # Null
          /\ bundle.rollback.digest # prior.rollback.digest
  THEN Verdict("stop", "conflict_detected")
  ELSE IF /\ bundle.rollback.strategy # Null
          /\ bundle.rollback.strategy # prior.rollback.strategy
  THEN Verdict("stop", "conflict_detected")
  ELSE Pass

\* benchmark.present = FALSE: no report was handed in, and then nothing is
\* enforced whatever requireGain says.
BenchmarkGate(action, opts) ==
  IF ~opts.benchmark.present \/ ~opts.requireGain \/ action # "apply"
  THEN Pass
  ELSE IF ~opts.benchmark.floorPreserved
  THEN Verdict("stop", "benchmark_quality_floor_failed")
  ELSE IF ~opts.benchmark.validGain
  THEN Verdict("stop", "benchmark_invalid_gain")
  ELSE Pass

\* A plausible bug: approvalRequired left undefined means not required.
ApprovalOnDemand(action, opts) == opts.approvalRequired = "yes"

\* approvalRequired left undefined means: required for an apply only.
ApprovalRequired(action, opts) ==
  \/ opts.approvalRequired = "yes"
  \/ opts.approvalRequired = "default" /\ action = "apply"

\* opts.blocked and opts.escalated are the paths that match the blocked and
\* the escalation glob patterns.
PolicyGate(action, bundle, opts) ==
  IF ~opts.allowAction
  THEN Verdict("stop", "policy_blocked")
  ELSE IF ~opts.capable
  THEN Verdict("escalate", "undeclared_capability")
  ELSE IF ApprovalRequired(action, opts) /\ ~opts.approved
  THEN Verdict("escalate", "policy_blocked")
  ELSE IF Changed(bundle) \cap opts.blocked # {}
  THEN Verdict("stop", "policy_blocked")
  ELSE IF Changed(bundle) \cap opts.escalated # {}
  THEN Verdict("escalate", "policy_blocked")
  ELSE Pass

-----------------------------------------------------------------------------
(* Target-state preconditions.                                             *)

\* validateApplyOperationPreconditions
OperationsFit(bundle, before) ==
  \A p \in Changed(bundle) :
    /\ before[p] # Null
    /\ bundle.edits[p] = "create" => before[p] = Absent
    /\ bundle.edits[p] \in {"modify", "delete"} => before[p] # Absent

\* Equality of snapshots stands for equality of their digests.  A rollback
\* looks at the record alone, the caller's expected digest is not used.
ApplyPreconditions(bundle, expected, before) ==
  /\ expected = Null \/ expected = before
  /\ OperationsFit(bundle, before)

\*
\* A plausible bug first: the digest of the state is not compared.
RollbackAnywhere(bundle, prior, before) ==
  /\ Changed(bundle) \subseteq Covered(prior.before)
  /\ Changed(bundle) \subseteq Covered(prior.after)
  /\ prior.changed = Changed(bundle)

RollbackPreconditions(bundle, prior, before) ==
  /\ before = prior.after
  /\ Changed(bundle) \subseteq Covered(prior.before)
  /\ Changed(bundle) \subseteq Covered(prior.after)
  /\ prior.changed = Changed(bundle)

Preconditions(action, bundle, prior, expected, before) ==
  IF action = "apply"
  THEN ApplyPreconditions(bundle, expected, before)
  ELSE RollbackPreconditions(bundle, prior, before)

PreconditionGate(action, bundle, prior, expected, before) ==
  IF Preconditions(action, bundle, prior, expected, before)
  THEN Pass
  ELSE Verdict("stop", "conflict_detected")

-----------------------------------------------------------------------------
\* decisionOverrides, in the order of the array: the first gate that speaks.
Decide(action, bundle, prior, opts, expected, before) ==
  UpstreamGate(bundle)
  ?? VerificationGate(bundle)
  ?? RollbackAvailabilityGate(action, bundle)
  ?? (IF action = "rollback" THEN RollbackInputsGate(bundle, prior) ELSE Pass)
  ?? BenchmarkGate(action, opts)
  ?? PolicyGate(action, bundle, opts)
  ?? PreconditionGate(action, bundle, prior, expected, before)
=============================================================================
