------------------------------- MODULE Stages -------------------------------
(* The stages between a workspace and an applied patch: intent mapping, safe *)
(* diff plan, patch run, PR bundle.  Constant-level: what each makes of the  *)
(* artifacts and options it is handed.  Pipeline keeps the artifacts, and    *)
(* the gates of the apply/rollback controller are those of ApplyGates.       *)
(*                                                                           *)
(* An artifact is what it says and the run it belongs to.  Its artifact_id   *)
(* is a digest of what it says, its inputs among it, and of nothing else: a  *)
(* reference to an artifact is what that artifact says.                      *)
EXTENDS Integers, Sequences, FiniteSets

CONSTANTS
  Null,        \* what is not given
  Runs,        \* run ids
  Trees,       \* states of the workspace
  Intents,
  Files,       \* paths, as they are spelled once normalised
  Outside,     \* the paths that leave the workspace
  Checks,      \* the checks of a verification
  OperationOf  \* the operation that the words of an intent ask for

Operations == {"create", "modify", "delete"}
Decisions  == {"continue", "escalate", "stop"}
\* The reasons that each stage can give, and the next one accepts.
MappingReasons == {"ok", "unsupported_input", "mapping_ambiguous", "mapping_low_confidence"}
PlanReasons    ==
  MappingReasons \cup {"forbidden_path", "change_bound_exceeded", "conflict_detected"}
PatchReasons   ==
  PlanReasons \cup {"verification_failed", "verification_incomplete", "policy_blocked"}
BundleReasons  == PatchReasons \cup {"rollback_unavailable", "bundle_incomplete"}
Verdicts(reasons) == [decision : Decisions, reason : reasons]

Verdict(d, r) == [decision |-> d, reason |-> r]
Continue      == Verdict("continue", "ok")
Unsupported   == Verdict("stop", "unsupported_input")

Edits     == [path : Files, operation : Operations]
PathsOf(edits) == {edits[i].path : i \in DOMAIN edits}

\* Every path of a list of edits once.
Distinct(edits) ==
  \A i, j \in DOMAIN edits : edits[i].path = edits[j].path => i = j

-----------------------------------------------------------------------------
(* Intent mapping.  Confidences are what scoring came to, in ten-thousandths;*)
(* candidates are sorted, the best first.                                    *)

Confidences == 0..10000
Candidates  == [path : Files, confidence : Confidences]
MapOptions  == [min : Confidences, gap : Confidences, alternatives : Nat]

\* The difference of two confidences is one of doubles: at the gap itself it
\* may come out above.
Near(found, opts, above) ==
  {i \in DOMAIN found :
     LET behind == found[1].confidence - found[i].confidence
     IN /\ found[i].confidence >= opts.min
        /\ behind < opts.gap \/ behind = 0 \/ (behind = opts.gap /\ ~above)}

\* How many candidates are selected, and with what verdict.
Selection(found, opts, above) ==
  LET near == Cardinality(Near(found, opts, above))
  IN IF found = <<>> THEN [size |-> 0, verdict |-> Unsupported]
     ELSE IF found[1].confidence < opts.min
     THEN [size |-> 1, verdict |-> Verdict("escalate", "mapping_low_confidence")]
     ELSE IF near > 1
     THEN [size |-> near, verdict |-> Verdict("escalate", "mapping_ambiguous")]
     ELSE [size |-> 1, verdict |-> Continue]

\* The selected candidates, and the best of the others.
MappingOf(snapshot, intent, found, opts, above) ==
  LET selection == Selection(found, opts, above)
      last == selection.size + opts.alternatives
  IN [input |-> snapshot, intent |-> intent,
      candidates |-> SubSeq(found, 1, selection.size),
      alternatives |-> SubSeq(found, selection.size + 1,
                              IF last > Len(found) THEN Len(found) ELSE last),
      verdict |-> selection.verdict]

-----------------------------------------------------------------------------
(* Safe diff plan.  A glob pattern is the set of paths it matches.           *)

PlanOptions ==
  [edits : Seq(Edits) \cup {Null}, forbidden : SUBSET Files,
   maxFileChanges : Nat \ {0}, maxHunks : Nat \ {0}]

DefaultEdits(mapping) ==
  IF Len(mapping.candidates) # 1 THEN <<>>
  ELSE <<[path |-> mapping.candidates[1].path,
          operation |-> OperationOf[mapping.intent]]>>

\* Edits are only planned on a mapping that continues, with one target.
PlannedEdits(mapping, opts) ==
  IF mapping.verdict.decision # "continue" \/ Len(mapping.candidates) > 1
  THEN <<>>
  ELSE IF opts.edits # Null THEN opts.edits ELSE DefaultEdits(mapping)

FromMapping(verdict) ==
  IF verdict.reason \in {"mapping_ambiguous", "mapping_low_confidence"} THEN verdict
  ELSE IF verdict.decision = "stop" THEN Unsupported
  ELSE Verdict(verdict.decision, "conflict_detected")

Forbidden(edits, opts) ==
  PathsOf(edits) \cap (Outside \cup opts.forbidden)

\* Mutant: of the two bounds only that of files is kept.
OutOfFileBounds(edits, opts) ==
  Cardinality(PathsOf(edits)) > opts.maxFileChanges
OutOfBounds(edits, opts) ==
  \/ Cardinality(PathsOf(edits)) > opts.maxFileChanges
  \/ Len(edits) > opts.maxHunks

PlanVerdict(mapping, opts) ==
  LET edits == PlannedEdits(mapping, opts)
  IN IF mapping.verdict.decision # "continue" THEN FromMapping(mapping.verdict)
     ELSE IF Len(mapping.candidates) > 1
     THEN Verdict("escalate", "mapping_ambiguous")
     ELSE IF edits = <<>> THEN Unsupported
     ELSE IF ~Distinct(edits) THEN Verdict("escalate", "conflict_detected")
     ELSE IF Forbidden(edits, opts) # {} THEN Verdict("stop", "forbidden_path")
     ELSE IF OutOfBounds(edits, opts)
     THEN Verdict("escalate", "change_bound_exceeded")
     ELSE Continue

\* A plan keeps the edits it blocks.
PlanOf(mapping, opts) ==
  [input |-> mapping, edits |-> PlannedEdits(mapping, opts),
   forbidden |-> opts.forbidden, maxFileChanges |-> opts.maxFileChanges,
   maxHunks |-> opts.maxHunks, verdict |-> PlanVerdict(mapping, opts)]

-----------------------------------------------------------------------------
(* Patch run.  Results are by check, as duplicates are refused.              *)

Statuses     == {"pass", "fail", "not_run"}
CheckResults == [status : Statuses, evidence : BOOLEAN]
PatchOptions ==
  [required : (SUBSET Checks) \ {{}}, results : [Checks -> CheckResults \cup {Null}],
   sensitive : SUBSET Files]

\* A plan with an edit outside the workspace is refused.
Runnable(plan) == PathsOf(plan.edits) \cap Outside = {}

\* Mutant: blocked edits are materialised.
EditsAnyway(plan) == plan.edits
PatchEdits(plan)  ==
  IF plan.verdict.decision = "continue" THEN plan.edits ELSE <<>>

Verification(opts) ==
  LET result(c) == opts.results[c]
  IN [required |-> opts.required,
      results  |-> opts.results,
      checksComplete |->
        \A c \in opts.required : result(c) # Null /\ result(c).status # "not_run",
      evidenceComplete |->
        \A c \in opts.required : result(c) # Null /\ result(c).evidence,
      allPassed |->
        \A c \in opts.required : result(c) # Null /\ result(c).status = "pass"]

PatchVerdict(plan, opts) ==
  LET found == Verification(opts)
  IN IF plan.verdict.decision # "continue" THEN plan.verdict
     ELSE IF plan.edits = <<>> THEN Unsupported
     ELSE IF ~found.checksComplete \/ ~found.evidenceComplete
     THEN Verdict("stop", "verification_incomplete")
     ELSE IF ~found.allPassed THEN Verdict("stop", "verification_failed")
     ELSE IF PathsOf(plan.edits) \cap opts.sensitive # {}
     THEN Verdict("escalate", "policy_blocked")
     ELSE Continue

\* The content of the patch is made of its edits, in their order.
PatchOf(plan, opts) ==
  [input |-> plan, edits |-> PatchEdits(plan),
   verification |-> Verification(opts), verdict |-> PatchVerdict(plan, opts)]
=============================================================================
