------------------------------ MODULE Pipeline ------------------------------
(* The stages as callers use them: each call makes an artifact of earlier    *)
(* ones, artifacts are kept and can be used again, by other runs as well,    *)
(* and the workspace is edited between calls.                                *)
EXTENDS Bundles

CONSTANTS
  Found,           \* the candidates of an intent in a state of the workspace
  MapOptionSets, PlanOptionSets, PatchOptionSets, BundleOptionSets,
  Minted,          \* run ids that callers give an artifact made of another
  MaxOfEach,       \* bound: artifacts of a kind that are kept
  MaxArtifacts     \* bound: artifacts that are kept

ASSUME ScoringAssumption ==
  /\ Found \in [Trees -> [Intents -> Seq(Candidates)]]
  /\ \A t \in Trees, intent \in Intents :
       LET found == Found[t][intent]
       IN \A i, j \in DOMAIN found :
            i < j => found[i].confidence >= found[j].confidence
ASSUME OptionAssumption ==
  /\ MapOptionSets \subseteq MapOptions
  /\ PlanOptionSets \subseteq PlanOptions
  /\ PatchOptionSets \subseteq PatchOptions
  /\ BundleOptionSets \subseteq BundleOptions
ASSUME RunAssumption == Minted \subseteq Runs
ASSUME FileAssumption ==
  /\ Outside \subseteq Files
  /\ IsFiniteSet(Files)
  /\ OperationOf \in [Intents -> Operations]
ASSUME AbsentAssumption ==
  /\ \A run \in Runs, says \in Trees : Null # Artifact(run, says)
  /\ Null \notin Seq(Edits) /\ Null \notin CheckResults
ASSUME BoundAssumption == {MaxOfEach, MaxArtifacts} \subseteq Nat

VARIABLES
  tree,        \* the workspace
  snapshots, mappings, plans, patches, bundles    \* the artifacts kept

artifacts == <<snapshots, mappings, plans, patches, bundles>>
vars      == <<tree, artifacts>>

-----------------------------------------------------------------------------
Init ==
  /\ tree \in Trees
  /\ snapshots = {} /\ mappings = {} /\ plans = {} /\ patches = {} /\ bundles = {}

\* The run id of an artifact is that of the one it is made of, unless its
\* caller gives another.
RunsFrom(artifact) == {artifact.run} \cup Minted

HowMany == Cardinality(snapshots) + Cardinality(mappings) + Cardinality(plans)
             + Cardinality(patches) + Cardinality(bundles)
Room(kept) == Cardinality(kept) < MaxOfEach /\ HowMany < MaxArtifacts

CreateSnapshot ==
  /\ Room(snapshots)
  /\ \E run \in Runs : snapshots' = snapshots \cup {Artifact(run, tree)}
  /\ UNCHANGED <<tree, mappings, plans, patches, bundles>>

\* The candidates are those of the workspace as it is now.
CreateMapping ==
  /\ Room(mappings)
  /\ \E s \in snapshots, intent \in Intents, opts \in MapOptionSets, above \in BOOLEAN :
       \E run \in RunsFrom(s) :
         mappings' = mappings \cup
           {Artifact(run, MappingOf(s.says, intent, Found[tree][intent], opts, above))}
  /\ UNCHANGED <<tree, snapshots, plans, patches, bundles>>

CreatePlan ==
  /\ Room(plans)
  /\ \E m \in mappings, opts \in PlanOptionSets : \E run \in RunsFrom(m) :
       plans' = plans \cup {Artifact(run, PlanOf(m.says, opts))}
  /\ UNCHANGED <<tree, snapshots, mappings, patches, bundles>>

CreatePatch ==
  /\ Room(patches)
  /\ \E p \in plans, opts \in PatchOptionSets : \E run \in RunsFrom(p) :
       /\ Runnable(p.says)
       /\ patches' = patches \cup {Artifact(run, PatchOf(p.says, opts))}
  /\ UNCHANGED <<tree, snapshots, mappings, plans, bundles>>

Lineages ==
  {Lineage(s, m, p) : s \in snapshots \cup {Null}, m \in mappings \cup {Null},
                      p \in plans \cup {Null}}

CreateBundle ==
  /\ Room(bundles)
  /\ \E q \in patches, l \in Lineages, opts \in BundleOptionSets :
       /\ Accepted(l, q)
       /\ \E run \in RunsFrom(q) :
            bundles' = bundles \cup {Artifact(run, BundleOf(l, q, opts))}
  /\ UNCHANGED <<tree, snapshots, mappings, plans, patches>>

\* Users, editors and git change the workspace.
Edit ==
  /\ tree' \in Trees \ {tree}
  /\ UNCHANGED artifacts

Next ==
  \/ CreateSnapshot
  \/ CreateMapping
  \/ CreatePlan
  \/ CreatePatch
  \/ CreateBundle
  \/ Edit

Spec == Init /\ [][Next]_vars

-----------------------------------------------------------------------------
Mappings == [input : Trees, intent : Intents, candidates : Seq(Candidates),
             alternatives : Seq(Candidates), verdict : Verdicts(MappingReasons)]
Plans    == [input : Mappings, edits : Seq(Edits), forbidden : SUBSET Files,
             maxFileChanges : Nat \ {0}, maxHunks : Nat \ {0}, verdict : Verdicts(PlanReasons)]
Verifications ==
  [required : (SUBSET Checks) \ {{}}, results : [Checks -> CheckResults \cup {Null}],
   checksComplete : BOOLEAN, evidenceComplete : BOOLEAN, allPassed : BOOLEAN]
Patches  == [input : Plans, edits : Seq(Edits), verification : Verifications,
             verdict : Verdicts(PatchReasons)]

Lines(says) == [run : Runs, says : says]

BundleRecords ==
  [lineage : [snapshot : Lines(Trees) \cup {Null}, mapping : Lines(Mappings) \cup {Null},
              plan : Lines(Plans) \cup {Null}],
   patch : Lines(Patches), edits : Seq(Edits), rollback : Seq(Edits),
   instructions : BOOLEAN, readiness : Verdicts(BundleReasons)]

\* Artifacts keep their types and give the reasons that the stage behind them
\* accepts; only a mapping, a plan and a patch run escalate.
TypeOK ==
  /\ tree \in Trees
  /\ snapshots \subseteq Lines(Trees)
  /\ mappings \subseteq Lines(Mappings)
  /\ plans \subseteq Lines(Plans)
  /\ patches \subseteq Lines(Patches)
  /\ bundles \subseteq Lines(BundleRecords)
  /\ \A b \in bundles : b.says.readiness.decision # "escalate"

\* rfcs/002: "Apply (#56): Policy allows action; verification evidence complete
\* and passing; PR bundle completeness validated".  A bundle that the controller
\* lets through its first gates is of one run from the snapshot on, each of its
\* artifacts is there and was made from the one before, each stage continued, and
\* what would be applied is what was planned and verified.
AdmittedIsOneChain ==
  \A b \in bundles : Admitted(b.says) =>
    LET l == b.says.lineage
        q == b.says.patch
    IN /\ l.snapshot \in snapshots /\ l.mapping \in mappings /\ l.plan \in plans
       /\ {l.snapshot.run, l.mapping.run, l.plan.run} = {q.run}
       /\ l.mapping.says.input = l.snapshot.says
       /\ l.plan.says.input = l.mapping.says
       /\ q.says.input = l.plan.says
       /\ {l.mapping.says.verdict, l.plan.says.verdict, q.says.verdict} = {Continue}
       /\ b.says.edits = q.says.edits

\* rfcs/002: "Missing required evidence is a hard-stop" and "Changes exceeding
\* planner bounds" escalate.  What an admitted bundle would change was mapped to
\* one target, lies in the workspace, off the forbidden paths and within the bounds
\* its plan names, and every required check has passed with evidence.
AdmittedIsChecked ==
  \A b \in bundles : Admitted(b.says) =>
    LET plan == b.says.lineage.plan.says
        found == b.says.patch.says.verification
    IN /\ b.says.edits # <<>> /\ Distinct(b.says.edits)
       /\ Len(plan.input.candidates) = 1
       /\ PathsOf(b.says.edits) \cap (Outside \cup plan.forbidden) = {}
       /\ Cardinality(PathsOf(b.says.edits)) <= plan.maxFileChanges
       /\ Len(b.says.edits) <= plan.maxHunks
       /\ found.required # {}
       /\ \A c \in found.required :
            found.results[c] = [status |-> "pass", evidence |-> TRUE]

\* runtime/README.md: "Patch-run policy_blocked outcomes can still be packaged into
\* a bundle for human review".  Readiness does not look at the outcome of the patch
\* run; yet a ready bundle is of one that continued or that only policy holds up.
ReadyIsReviewable ==
  \A b \in bundles : b.says.readiness = Continue =>
    /\ b.says.patch.says.verdict \in {Continue, Verdict("escalate", "policy_blocked")}
    /\ b.says.edits # <<>>
    /\ b.says.lineage.plan.says.verdict = Continue
    /\ b.says.lineage.mapping.says.verdict = Continue

\* The files that are there after edits are made one after the other; Null where
\* one of them finds a file that it creates, or finds none to modify or delete.
Fits(edit, there) == edit.path \in there <=> edit.operation # "create"
EditedBy(edit, there) ==
  IF edit.operation = "create" THEN there \cup {edit.path}
  ELSE IF edit.operation = "delete" THEN there \ {edit.path} ELSE there
After(edits, files) ==
  LET after[n \in 0..Len(edits)] ==
        IF n = 0 THEN files
        ELSE IF after[n - 1] = Null \/ ~Fits(edits[n], after[n - 1]) THEN Null
        ELSE EditedBy(edits[n], after[n - 1])
  IN after[Len(edits)]

\* rfcs/002: "Rollback package validated".  The rollback of a ready bundle, made
\* where the bundle's edits were, finds each file as it needs it and leaves the
\* files that were there.
RollbackUndoesEdits ==
  \A b \in bundles : b.says.readiness = Continue =>
    \A files \in SUBSET (Files \ Outside) :
      After(b.says.edits, files) # Null
        => After(b.says.rollback, After(b.says.edits, files)) = files
=============================================================================
