--------------------------- MODULE PipelineProofs ---------------------------
(* What the stages of Pipeline promise, for every value of its constants: any*)
(* scoring, any options, any number of runs, users who edit between any two  *)
(* calls, and callers who combine any artifacts.                             *)
EXTENDS Pipeline, FiniteSetTheorems, SequenceTheorems, WellFoundedInduction, TLAPS

-----------------------------------------------------------------------------
(* Intent mapping.                                                           *)

\* A selection is no longer than what was found; one that continues is of one
\* candidate.
LEMMA SelectionSize ==
  ASSUME NEW found \in Seq(Candidates), NEW opts \in MapOptions,
         NEW above \in BOOLEAN
  PROVE  LET s == Selection(found, opts, above)
         IN /\ s.size \in 0..Len(found)
            /\ s.verdict \in Verdicts(MappingReasons)
            /\ s.verdict.decision = "continue" => s.verdict = Continue /\ s.size = 1
  <1> DEFINE near == Near(found, opts, above)
  <1>1. Len(found) \in Nat /\ DOMAIN found = 1..Len(found)
    BY LenProperties
  <1>2. IsFiniteSet(1..Len(found)) /\ Cardinality(1..Len(found)) = Len(found)
    <2>1. /\ IsFiniteSet(1..Len(found))
          /\ Cardinality(1..Len(found)) = IF 1 > Len(found) THEN 0 ELSE Len(found) - 1 + 1
      BY <1>1, FS_Interval
    <2>2. QED
      BY <1>1, <2>1
  <1>3. near \in SUBSET (1..Len(found))
    BY <1>1 DEF Near
  <1>4. Cardinality(near) \in 0..Len(found)
    BY <1>1, <1>2, <1>3, FS_Subset, FS_CardinalityType
  <1>5. found # <<>> => Len(found) >= 1
    BY <1>1, EmptySeq
  <1> HIDE DEF near
  <1>6. LET s == Selection(found, opts, above)
        IN s = IF found = <<>> THEN [size |-> 0, verdict |-> Unsupported]
               ELSE IF found[1].confidence < opts.min
               THEN [size |-> 1, verdict |-> Verdict("escalate", "mapping_low_confidence")]
               ELSE IF Cardinality(near) > 1
               THEN [size |-> Cardinality(near),
                     verdict |-> Verdict("escalate", "mapping_ambiguous")]
               ELSE [size |-> 1, verdict |-> Continue]
    BY DEF Selection, near
  <1>7. QED
    BY <1>1, <1>4, <1>5, <1>6
    DEF Verdicts, Verdict, Continue, Unsupported, Decisions, MappingReasons

\* The number of alternatives that a caller asks for is a natural number.
LEMMA CountOfAlternatives ==
  ASSUME NEW o \in MapOptions
  PROVE  o.alternatives \in Nat
  BY DEF MapOptions

\* A mapping has the type of one, and continues only on a single candidate.
LEMMA MappingsMade ==
  ASSUME NEW snapshot \in Trees, NEW intent \in Intents,
         NEW found \in Seq(Candidates), NEW opts \in MapOptions,
         NEW above \in BOOLEAN
  PROVE  LET m == MappingOf(snapshot, intent, found, opts, above)
         IN /\ m \in Mappings
            /\ m.verdict.decision = "continue"
                 => m.verdict = Continue /\ Len(m.candidates) = 1
  <1> DEFINE s == Selection(found, opts, above)
             last == s.size + opts.alternatives
             to == IF last > Len(found) THEN Len(found) ELSE last
             chosen == SubSeq(found, 1, s.size)
             others == SubSeq(found, s.size + 1, to)
  <1>1. Len(found) \in Nat /\ found \in [1..Len(found) -> Candidates]
    BY LenProperties
  <1>2. /\ s.size \in 0..Len(found)
        /\ s.verdict \in Verdicts(MappingReasons)
        /\ s.verdict.decision = "continue" => s.verdict = Continue /\ s.size = 1
    BY SelectionSize
  <1>3. opts.alternatives \in Nat
    BY CountOfAlternatives
  <1>4. MappingOf(snapshot, intent, found, opts, above)
          = [input |-> snapshot, intent |-> intent, candidates |-> chosen,
             alternatives |-> others, verdict |-> s.verdict]
    BY DEF MappingOf
  <1> HIDE DEF s
  <1>5. to \in 0..Len(found) /\ to \in Int /\ s.size \in Int /\ s.size + 1 \in Int
    BY <1>1, <1>2, <1>3
  <1>6. /\ \A i \in 1..s.size : found[i] \in Candidates
        /\ \A i \in s.size + 1..to : found[i] \in Candidates
    BY <1>1, <1>2, <1>5
  <1>7. chosen \in Seq(Candidates)
        /\ Len(chosen) = IF 1 <= s.size THEN s.size - 1 + 1 ELSE 0
    BY <1>5, <1>6, SubSeqProperties
  <1> HIDE DEF to
  <1>8. others \in Seq(Candidates)
    BY <1>5, <1>6, SubSeqProperties
  <1> HIDE DEF chosen, others
  <1>9. s.size = 1 => Len(chosen) = 1
    BY <1>7
  <1>10. MappingOf(snapshot, intent, found, opts, above) \in Mappings
    BY <1>2, <1>4, <1>7, <1>8 DEF Mappings
  <1>11. QED
    BY <1>2, <1>4, <1>9, <1>10

-----------------------------------------------------------------------------
(* Safe diff plan.                                                           *)

\* What a plan knows of its edits if it continues.
PlanChecked(p) ==
  p.verdict.decision = "continue" =>
    /\ p.verdict = Continue
    /\ p.input.verdict.decision = "continue"
    /\ Len(p.input.candidates) <= 1
    /\ p.edits # <<>> /\ Distinct(p.edits)
    /\ PathsOf(p.edits) \cap (Outside \cup p.forbidden) = {}
    /\ Cardinality(PathsOf(p.edits)) <= p.maxFileChanges
    /\ Len(p.edits) <= p.maxHunks

\* A tuple of one is a sequence.
LEMMA SeqOfOne ==
  ASSUME NEW S, NEW x \in S
  PROVE  <<x>> \in Seq(S)
  OBVIOUS

\* The paths of a list of edits are finitely many.
LEMMA PathsFinite ==
  ASSUME NEW edits \in Seq(Edits)
  PROVE  Cardinality(PathsOf(edits)) \in Nat
  <1>1. edits \in [1..Len(edits) -> Edits] /\ DOMAIN edits = 1..Len(edits)
    BY LenProperties
  <1>2. PathsOf(edits) \in SUBSET Files
    BY <1>1 DEF PathsOf, Edits
  <1>3. QED
    BY <1>2, FileAssumption, FS_Subset, FS_CardinalityType

\* The edits of a plan are those of its options or the one of its mapping.
LEMMA PlannedEditsType ==
  ASSUME NEW m \in Mappings, NEW opts \in PlanOptions
  PROVE  PlannedEdits(m, opts) \in Seq(Edits)
  <1>1. opts.edits \in Seq(Edits) \cup {Null} /\ <<>> \in Seq(Edits)
    BY EmptySeq DEF PlanOptions
  <1>2. m.candidates \in Seq(Candidates) /\ m.intent \in Intents
    BY DEF Mappings
  <1>3. OperationOf[m.intent] \in Operations
    BY <1>2, FileAssumption
  <1>4. DefaultEdits(m) \in Seq(Edits)
    <2>1. CASE Len(m.candidates) # 1
      BY <1>1, <2>1 DEF DefaultEdits
    <2>2. CASE Len(m.candidates) = 1
      <3>1. m.candidates[1] \in Candidates
        BY <1>2, <2>2, LenProperties
      <3>2. m.candidates[1].path \in Files
        <4>1. \A c \in Candidates : c.path \in Files
          BY DEF Candidates
        <4>2. QED
          BY <3>1, <4>1
      <3>3. [path |-> m.candidates[1].path, operation |-> OperationOf[m.intent]] \in Edits
        BY <1>3, <3>2 DEF Edits
      <3>4. QED
        BY <2>2, <3>3, SeqOfOne DEF DefaultEdits
    <2>3. QED
      BY <2>1, <2>2
  <1>5. QED
    BY <1>1, <1>4 DEF PlannedEdits

\* A plan has the type of one and is checked.
LEMMA PlansMade ==
  ASSUME NEW m \in Mappings, NEW opts \in PlanOptions
  PROVE  PlanOf(m, opts) \in Plans /\ PlanChecked(PlanOf(m, opts))
  <1> DEFINE edits == PlannedEdits(m, opts)
             v == PlanVerdict(m, opts)
  <1>1. edits \in Seq(Edits)
    BY PlannedEditsType
  <1>2. /\ opts.forbidden \in SUBSET Files
        /\ opts.maxFileChanges \in Nat \ {0} /\ opts.maxHunks \in Nat \ {0}
        /\ m.verdict \in Verdicts(MappingReasons)
    BY DEF PlanOptions, Mappings
  <1>3. Cardinality(PathsOf(edits)) \in Nat /\ Len(edits) \in Nat /\ Len(m.candidates) \in Nat
    BY <1>1, PathsFinite, LenProperties DEF Mappings
  <1>4. m.verdict.decision # "continue" => FromMapping(m.verdict).decision # "continue"
    BY <1>2 DEF FromMapping, Verdict, Unsupported, Verdicts
  <1>5. FromMapping(m.verdict) \in Verdicts(PlanReasons)
    BY <1>2 DEF FromMapping, Verdict, Unsupported, Verdicts, PlanReasons, MappingReasons,
               Decisions
  <1>6. v = IF m.verdict.decision # "continue" THEN FromMapping(m.verdict)
            ELSE IF Len(m.candidates) > 1
            THEN Verdict("escalate", "mapping_ambiguous")
            ELSE IF edits = <<>> THEN Unsupported
            ELSE IF ~Distinct(edits) THEN Verdict("escalate", "conflict_detected")
            ELSE IF Forbidden(edits, opts) # {} THEN Verdict("stop", "forbidden_path")
            ELSE IF OutOfBounds(edits, opts)
            THEN Verdict("escalate", "change_bound_exceeded")
            ELSE Continue
    BY DEF PlanVerdict
  <1>7. PlanOf(m, opts) = [input |-> m, edits |-> edits, forbidden |-> opts.forbidden,
          maxFileChanges |-> opts.maxFileChanges, maxHunks |-> opts.maxHunks, verdict |-> v]
    BY DEF PlanOf
  <1> HIDE DEF edits, v
  <1>8. v \in Verdicts(PlanReasons)
    BY <1>5, <1>6 DEF Verdict, Unsupported, Continue, Verdicts, PlanReasons,
                     MappingReasons, Decisions
  <1>9. v.decision = "continue" =>
          /\ v = Continue /\ m.verdict.decision = "continue"
          /\ ~(Len(m.candidates) > 1) /\ edits # <<>> /\ Distinct(edits)
          /\ Forbidden(edits, opts) = {} /\ ~OutOfBounds(edits, opts)
    BY <1>4, <1>6 DEF Verdict, Unsupported
  <1>10. v.decision = "continue" =>
          /\ Cardinality(PathsOf(edits)) <= opts.maxFileChanges
          /\ Len(edits) <= opts.maxHunks
    BY <1>2, <1>3, <1>9 DEF OutOfBounds
  <1>11. PlanOf(m, opts) \in Plans
    BY <1>1, <1>2, <1>7, <1>8 DEF Plans
  <1>12. PlanChecked(PlanOf(m, opts))
    BY <1>3, <1>7, <1>9, <1>10 DEF PlanChecked, Forbidden
  <1>13. QED
    BY <1>11, <1>12

-----------------------------------------------------------------------------
(* Patch run.                                                                *)

\* What the flags of a verification say.
FlagsTrue(found) ==
  found.checksComplete /\ found.evidenceComplete /\ found.allPassed
AllPass(found)   ==
  \A c \in found.required : found.results[c] = [status |-> "pass", evidence |-> TRUE]

\* What a patch run knows of its edits and its checks.
PatchChecked(q) ==
  /\ q.verdict.decision = "continue" =>
       /\ q.verdict = Continue /\ q.edits = q.input.edits
       /\ FlagsTrue(q.verification)
  /\ FlagsTrue(q.verification) => AllPass(q.verification)
  /\ FlagsTrue(q.verification) /\ q.edits # <<>> =>
       /\ q.verdict \in {Continue, Verdict("escalate", "policy_blocked")}
       /\ q.input.verdict.decision = "continue"
  /\ q.edits = IF q.input.verdict.decision = "continue" THEN q.input.edits ELSE <<>>

\* A verification has the type of one; its flags tell what the checks came to.
LEMMA VerificationsMade ==
  ASSUME NEW opts \in PatchOptions
  PROVE  /\ Verification(opts) \in Verifications
         /\ FlagsTrue(Verification(opts)) => AllPass(Verification(opts))
  <1>1. /\ opts.required \in (SUBSET Checks) \ {{}}
        /\ opts.results \in [Checks -> CheckResults \cup {Null}]
    BY DEF PatchOptions
  <1>2. Verification(opts) \in Verifications
    BY <1>1 DEF Verification, Verifications
  <1>3. ASSUME FlagsTrue(Verification(opts)), NEW c \in opts.required
        PROVE  opts.results[c] = [status |-> "pass", evidence |-> TRUE]
    <2>1. opts.results[c] # Null /\ opts.results[c].status = "pass" /\ opts.results[c].evidence
      BY <1>3 DEF FlagsTrue, Verification
    <2>2. opts.results[c] \in CheckResults
      BY <1>1, <2>1
    <2>3. QED
      BY <2>1, <2>2 DEF CheckResults
  <1>4. QED
    BY <1>2, <1>3 DEF AllPass, Verification

\* A patch run has the type of one and is checked.
LEMMA PatchesMade ==
  ASSUME NEW p \in Plans, NEW opts \in PatchOptions
  PROVE  PatchOf(p, opts) \in Patches /\ PatchChecked(PatchOf(p, opts))
  <1> DEFINE found == Verification(opts)
             v == PatchVerdict(p, opts)
             edits == PatchEdits(p)
  <1>1. p.edits \in Seq(Edits) /\ p.verdict \in Verdicts(PlanReasons) /\ <<>> \in Seq(Edits)
    BY EmptySeq DEF Plans
  <1>2. found \in Verifications /\ (FlagsTrue(found) => AllPass(found))
    BY VerificationsMade
  <1>3. v = IF p.verdict.decision # "continue" THEN p.verdict
            ELSE IF p.edits = <<>> THEN Unsupported
            ELSE IF ~found.checksComplete \/ ~found.evidenceComplete
            THEN Verdict("stop", "verification_incomplete")
            ELSE IF ~found.allPassed THEN Verdict("stop", "verification_failed")
            ELSE IF PathsOf(p.edits) \cap opts.sensitive # {}
            THEN Verdict("escalate", "policy_blocked")
            ELSE Continue
    BY DEF PatchVerdict
  <1>4. edits = IF p.verdict.decision = "continue" THEN p.edits ELSE <<>>
    BY DEF PatchEdits
  <1>5. PatchOf(p, opts) = [input |-> p, edits |-> edits, verification |-> found,
                            verdict |-> v]
    BY DEF PatchOf
  <1> HIDE DEF found, v, edits
  <1>6. v \in Verdicts(PatchReasons)
    BY <1>1, <1>3 DEF Verdicts, PatchReasons, PlanReasons, MappingReasons, Decisions,
                     Verdict, Unsupported, Continue
  <1>7. v.decision = "continue" =>
          v = Continue /\ p.verdict.decision = "continue" /\ FlagsTrue(found)
    BY <1>3 DEF Verdict, Unsupported, FlagsTrue
  <1>8. FlagsTrue(found) /\ edits # <<>> =>
          /\ v \in {Continue, Verdict("escalate", "policy_blocked")}
          /\ p.verdict.decision = "continue"
    BY <1>3, <1>4 DEF FlagsTrue
  <1>9. PatchOf(p, opts) \in Patches
    BY <1>1, <1>2, <1>4, <1>5, <1>6 DEF Patches
  <1>10. PatchChecked(PatchOf(p, opts))
    BY <1>2, <1>4, <1>5, <1>7, <1>8 DEF PatchChecked
  <1>11. QED
    BY <1>9, <1>10

-----------------------------------------------------------------------------
(* PR bundle.                                                                *)

\* What a bundle knows of its lineage and its patch run.
BundleChecked(b) ==
  /\ Accepted(b.lineage, b.patch)
  /\ b.edits = PlanEdits(b.lineage)
  /\ b.readiness.decision # "escalate"
  /\ b.readiness.decision = "continue" =>
       /\ b.readiness = Continue
       /\ b.edits # <<>> /\ b.patch.says.edits # <<>>
       /\ b.rollback = Reversed(b.edits)
       /\ Complete(b.lineage)
       /\ FlagsTrue(b.patch.says.verification)

LineageRecords ==
  [snapshot : Lines(Trees) \cup {Null}, mapping : Lines(Mappings) \cup {Null},
   plan : Lines(Plans) \cup {Null}]

\* A rollback is a list of edits.
LEMMA ReversedType ==
  ASSUME NEW edits \in Seq(Edits)
  PROVE  Reversed(edits) \in Seq(Edits)
  <1> DEFINE n == Len(edits)
             back(i) == [path |-> edits[n + 1 - i].path,
                         operation |-> Opposite(edits[n + 1 - i].operation)]
  <1>1. n \in Nat /\ DOMAIN edits = 1..n /\ \A i \in 1..n : edits[i] \in Edits
    BY LenProperties
  <1>2. \A e \in Edits : e.path \in Files /\ Opposite(e.operation) \in Operations
    <2>1. \A e \in Edits : e.path \in Files
      BY DEF Edits
    <2>2. \A o : Opposite(o) \in Operations
      BY DEF Opposite, Operations
    <2>3. QED
      BY <2>1, <2>2
  <1>3. ASSUME NEW i \in 1..n PROVE back(i) \in Edits
    <2>1. n + 1 - i \in 1..n
      BY <1>1
    <2>2. edits[n + 1 - i] \in Edits
      BY <1>1, <2>1
    <2>3. edits[n + 1 - i].path \in Files /\ Opposite(edits[n + 1 - i].operation) \in Operations
      BY <1>2, <2>2
    <2>4. \A f \in Files, o \in Operations : [path |-> f, operation |-> o] \in Edits
      BY DEF Edits
    <2>5. QED
      BY <2>3, <2>4
  <1>4. Reversed(edits) = [i \in 1..n |-> back(i)]
    BY <1>1 DEF Reversed
  <1> HIDE DEF n, back
  <1>5. [i \in 1..n |-> back(i)] \in [1..n -> Edits]
    BY <1>3
  <1>6. QED
    BY <1>1, <1>4, <1>5, SeqDef

\* A bundle of a lineage that was accepted has the type of one and is checked.
LEMMA BundlesMade ==
  ASSUME NEW l \in LineageRecords, NEW q \in Lines(Patches), NEW opts \in BundleOptions,
         Accepted(l, q)
  PROVE  BundleOf(l, q, opts) \in BundleRecords /\ BundleChecked(BundleOf(l, q, opts))
  <1> DEFINE edits == PlanEdits(l)
             rollback == IF Supported(l, opts) THEN Reversed(edits) ELSE <<>>
             ready == Readiness(l, q, opts)
             found == q.says.verification
  <1>1. /\ q.says \in Patches /\ q.says.verdict \in Verdicts(PatchReasons)
        /\ found \in Verifications
    BY DEF Lines, Patches
  <1>2. edits \in Seq(Edits)
    <2>1. \A p \in Lines(Plans) : p.says.edits \in Seq(Edits)
      BY DEF Lines, Plans
    <2>2. l.plan # Null => l.plan \in Lines(Plans)
      BY DEF LineageRecords
    <2>3. QED
      BY <2>1, <2>2, EmptySeq DEF PlanEdits
  <1>3. rollback \in Seq(Edits)
    BY <1>2, ReversedType, EmptySeq
  <1>4. Instructed(l, opts) \in BOOLEAN
    BY DEF Instructed, Supported
  <1>5. ready = IF Missing(l, q, opts) = {} THEN Continue
                ELSE IF ~found.checksComplete \/ ~found.evidenceComplete
                THEN Verdict("stop", "verification_incomplete")
                ELSE IF ~found.allPassed THEN Verdict("stop", "verification_failed")
                ELSE IF q.says.verdict.decision = "stop"
                THEN Verdict("stop", q.says.verdict.reason)
                ELSE IF ~Supported(l, opts)
                THEN Verdict("stop", "rollback_unavailable")
                ELSE Verdict("stop", "bundle_incomplete")
    BY DEF Readiness
  <1>6. Missing(l, q, opts) = {} =>
          /\ q.says.edits # <<>> /\ FlagsTrue(found)
          /\ Supported(l, opts) /\ Complete(l)
    <2> DEFINE told == Sections(l, q, opts)
    <2>1. /\ told.patch_payload = (q.says.edits # <<>>)
          /\ told.verification_results
               = (found.checksComplete /\ found.evidenceComplete /\ found.allPassed)
          /\ told.rollback_package = Supported(l, opts)
          /\ told.lineage_trace_complete = Complete(l)
      BY DEF Sections
    <2>2. {"patch_payload", "verification_results", "rollback_package",
           "lineage_trace_complete"} \subseteq DOMAIN told
      BY DEF Sections
    <2>3. Missing(l, q, opts) = {s \in DOMAIN told : ~told[s]}
      BY DEF Missing
    <2> HIDE DEF told
    <2>4. Missing(l, q, opts) = {} =>
            /\ told["patch_payload"] /\ told["verification_results"]
            /\ told["rollback_package"] /\ told["lineage_trace_complete"]
      BY <2>2, <2>3
    <2>5. QED
      BY <2>1, <2>4 DEF FlagsTrue
  <1>7. BundleOf(l, q, opts) = [lineage |-> l, patch |-> q, edits |-> edits,
          rollback |-> rollback, instructions |-> Instructed(l, opts), readiness |-> ready]
    BY DEF BundleOf
  <1>8. Supported(l, opts) => edits # <<>>
    BY DEF Supported
  <1> HIDE DEF edits, rollback, ready, found
  <1>9. ready \in Verdicts(BundleReasons) /\ ready.decision # "escalate"
        /\ (ready.decision = "continue" => ready = Continue /\ Missing(l, q, opts) = {})
    <2>1. q.says.verdict.reason \in PatchReasons
      BY <1>1 DEF Verdicts
    <2>2. QED
      BY <1>5, <2>1 DEF Verdicts, Verdict, Continue, Decisions, BundleReasons, PatchReasons,
                       PlanReasons, MappingReasons
  <1>10. BundleOf(l, q, opts) \in BundleRecords
    BY <1>2, <1>3, <1>4, <1>7, <1>9 DEF BundleRecords, LineageRecords
  <1>11. BundleChecked(BundleOf(l, q, opts))
    BY <1>6, <1>7, <1>8, <1>9 DEF BundleChecked, edits, found, rollback
  <1>12. QED
    BY <1>10, <1>11

\* The gates of the controller let through what continued twice.
LEMMA AdmittedContinued ==
  ASSUME NEW b, Admitted(b)
  PROVE  /\ Distinct(b.edits)
         /\ b.patch.says.verdict.decision = "continue"
         /\ b.readiness.decision = "continue"
  <1>1. /\ Handed(b).outcome = b.patch.says.verdict
        /\ Handed(b).readiness = b.readiness
    BY DEF Handed
  <1>2. Controller!UpstreamGate(Handed(b)) = Controller!Pass /\ Distinct(b.edits)
    BY DEF Admitted
  <1>3. QED
    BY <1>1, <1>2 DEF Controller!UpstreamGate, Controller!Pass, Controller!Verdict

-----------------------------------------------------------------------------
(* The artifacts that are kept.                                              *)

\* What a mapping knows of its candidates.
MappingChecked(m) ==
  m.verdict.decision = "continue" => m.verdict = Continue /\ Len(m.candidates) = 1

\* A lineage is of artifacts that were kept.
Kept(l) ==
  /\ l.snapshot \in snapshots \cup {Null}
  /\ l.mapping \in mappings \cup {Null}
  /\ l.plan \in plans \cup {Null}

\* Every artifact is what its stage makes, and a bundle is of artifacts kept.
Checked ==
  /\ \A m \in mappings : MappingChecked(m.says)
  /\ \A p \in plans : PlanChecked(p.says)
  /\ \A q \in patches : PatchChecked(q.says)
  /\ \A b \in bundles :
       Kept(b.says.lineage) /\ b.says.patch \in patches /\ BundleChecked(b.says)
Typed ==
  /\ tree \in Trees
  /\ snapshots \subseteq Lines(Trees)
  /\ mappings \subseteq Lines(Mappings)
  /\ plans \subseteq Lines(Plans)
  /\ patches \subseteq Lines(Patches)
  /\ bundles \subseteq Lines(BundleRecords)
PipelineInv == Typed /\ Checked

\* Initially nothing is kept.
LEMMA InitPipeline == Init => PipelineInv
  BY DEF Init, PipelineInv, Typed, Checked

\* An artifact of a run and of what it says is a line.
LEMMA ArtifactLines ==
  ASSUME NEW S, NEW says \in S, NEW run \in Runs
  PROVE  Artifact(run, says) \in Lines(S) /\ Artifact(run, says).says = says
  BY DEF Artifact, Lines

\* The run id of an artifact made of another is a run id.
LEMMA RunsFromRuns ==
  ASSUME NEW S, NEW a \in Lines(S), NEW run \in RunsFrom(a)
  PROVE  run \in Runs /\ a.says \in S
  BY RunAssumption DEF RunsFrom, Lines

\* A bundle of artifacts kept stays one when more are kept.
LEMMA KeptGrows ==
  ASSUME snapshots \subseteq snapshots', mappings \subseteq mappings',
         plans \subseteq plans', NEW l, Kept(l)
  PROVE  Kept(l)'
  BY DEF Kept

\* Bundles are as they were where more artifacts, and no other bundles, are kept.
LEMMA BundlesStay ==
  ASSUME Checked, snapshots \subseteq snapshots', mappings \subseteq mappings',
         plans \subseteq plans', patches \subseteq patches', UNCHANGED bundles
  PROVE  (\A b \in bundles :
            Kept(b.says.lineage) /\ b.says.patch \in patches /\ BundleChecked(b.says))'
  <1>1. SUFFICES ASSUME NEW b \in bundles
        PROVE  Kept(b.says.lineage)' /\ b.says.patch \in patches' /\ BundleChecked(b.says)
    OBVIOUS
  <1>2. Kept(b.says.lineage) /\ b.says.patch \in patches /\ BundleChecked(b.says)
    BY DEF Checked
  <1>3. Kept(b.says.lineage)'
    BY <1>2, KeptGrows
  <1>4. QED
    BY <1>2, <1>3

\* A snapshot that is kept disturbs nothing.
LEMMA SnapshotKeeps ==
  ASSUME PipelineInv, CreateSnapshot
  PROVE  PipelineInv'
  <1>1. PICK run \in Runs : snapshots' = snapshots \cup {Artifact(run, tree)}
    BY DEF CreateSnapshot
  <1>2. UNCHANGED <<tree, mappings, plans, patches, bundles>> /\ Typed /\ Checked
    BY DEF CreateSnapshot, PipelineInv
  <1>3. Artifact(run, tree) \in Lines(Trees)
    BY <1>2, ArtifactLines DEF Typed
  <1>4. Typed'
    BY <1>1, <1>2, <1>3 DEF Typed
  <1>5. Checked'
    BY <1>1, <1>2, BundlesStay DEF Checked
  <1>6. QED
    BY <1>4, <1>5 DEF PipelineInv

\* A mapping is checked when it is kept.
LEMMA MappingKeeps ==
  ASSUME PipelineInv, CreateMapping
  PROVE  PipelineInv'
  <1>1. PICK s \in snapshots, intent \in Intents, opts \in MapOptionSets, above \in BOOLEAN :
          \E run \in RunsFrom(s) :
            mappings' = mappings \cup
              {Artifact(run, MappingOf(s.says, intent, Found[tree][intent], opts, above))}
    BY DEF CreateMapping
  <1> DEFINE m == MappingOf(s.says, intent, Found[tree][intent], opts, above)
  <1>2. PICK run \in RunsFrom(s) : mappings' = mappings \cup {Artifact(run, m)}
    BY <1>1
  <1>3. UNCHANGED <<tree, snapshots, plans, patches, bundles>> /\ Typed /\ Checked
    BY DEF CreateMapping, PipelineInv
  <1>4. run \in Runs /\ s.says \in Trees
    BY <1>3, RunsFromRuns DEF Typed
  <1>5. Found[tree][intent] \in Seq(Candidates) /\ opts \in MapOptions
    BY <1>3, ScoringAssumption, OptionAssumption DEF Typed
  <1>6. m \in Mappings /\ MappingChecked(m)
    BY <1>4, <1>5, MappingsMade DEF MappingChecked
  <1> HIDE DEF m
  <1>7. Artifact(run, m) \in Lines(Mappings) /\ Artifact(run, m).says = m
    BY <1>4, <1>6, ArtifactLines
  <1>8. Typed'
    BY <1>2, <1>3, <1>7 DEF Typed
  <1>9. Checked'
    BY <1>2, <1>3, <1>6, <1>7, BundlesStay DEF Checked
  <1>10. QED
    BY <1>8, <1>9 DEF PipelineInv

\* A plan is checked when it is kept.
LEMMA PlanKeeps ==
  ASSUME PipelineInv, CreatePlan
  PROVE  PipelineInv'
  <1>1. PICK m \in mappings, opts \in PlanOptionSets : \E run \in RunsFrom(m) :
          plans' = plans \cup {Artifact(run, PlanOf(m.says, opts))}
    BY DEF CreatePlan
  <1>2. PICK run \in RunsFrom(m) :
          plans' = plans \cup {Artifact(run, PlanOf(m.says, opts))}
    BY <1>1
  <1>3. UNCHANGED <<tree, snapshots, mappings, patches, bundles>> /\ Typed /\ Checked
    BY DEF CreatePlan, PipelineInv
  <1>4. run \in Runs /\ m.says \in Mappings
    BY <1>3, RunsFromRuns DEF Typed
  <1>5. PlanOf(m.says, opts) \in Plans /\ PlanChecked(PlanOf(m.says, opts))
    BY <1>4, OptionAssumption, PlansMade
  <1>6. /\ Artifact(run, PlanOf(m.says, opts)) \in Lines(Plans)
        /\ Artifact(run, PlanOf(m.says, opts)).says = PlanOf(m.says, opts)
    BY <1>4, <1>5, ArtifactLines
  <1>7. Typed'
    BY <1>2, <1>3, <1>6 DEF Typed
  <1>8. Checked'
    BY <1>2, <1>3, <1>5, <1>6, BundlesStay DEF Checked
  <1>9. QED
    BY <1>7, <1>8 DEF PipelineInv

\* A patch run is checked when it is kept.
LEMMA PatchKeeps ==
  ASSUME PipelineInv, CreatePatch
  PROVE  PipelineInv'
  <1>1. PICK p \in plans, opts \in PatchOptionSets : \E run \in RunsFrom(p) :
          patches' = patches \cup {Artifact(run, PatchOf(p.says, opts))}
    BY DEF CreatePatch
  <1>2. PICK run \in RunsFrom(p) :
          patches' = patches \cup {Artifact(run, PatchOf(p.says, opts))}
    BY <1>1
  <1>3. UNCHANGED <<tree, snapshots, mappings, plans, bundles>> /\ Typed /\ Checked
    BY DEF CreatePatch, PipelineInv
  <1>4. run \in Runs /\ p.says \in Plans
    BY <1>3, RunsFromRuns DEF Typed
  <1>5. PatchOf(p.says, opts) \in Patches /\ PatchChecked(PatchOf(p.says, opts))
    BY <1>4, OptionAssumption, PatchesMade
  <1>6. /\ Artifact(run, PatchOf(p.says, opts)) \in Lines(Patches)
        /\ Artifact(run, PatchOf(p.says, opts)).says = PatchOf(p.says, opts)
    BY <1>4, <1>5, ArtifactLines
  <1>7. Typed'
    BY <1>2, <1>3, <1>6 DEF Typed
  <1>8. Checked'
    BY <1>2, <1>3, <1>5, <1>6, BundlesStay DEF Checked
  <1>9. QED
    BY <1>7, <1>8 DEF PipelineInv

\* A bundle is of artifacts kept, and is checked when it is kept.
LEMMA BundleKeeps ==
  ASSUME PipelineInv, CreateBundle
  PROVE  PipelineInv'
  <1>1. PICK q \in patches, l \in Lineages, opts \in BundleOptionSets :
          /\ Accepted(l, q)
          /\ \E run \in RunsFrom(q) : bundles' = bundles \cup {Artifact(run, BundleOf(l, q, opts))}
    BY DEF CreateBundle
  <1> DEFINE b == BundleOf(l, q, opts)
  <1>2. PICK run \in RunsFrom(q) : bundles' = bundles \cup {Artifact(run, b)}
    BY <1>1
  <1>3. UNCHANGED <<tree, snapshots, mappings, plans, patches>> /\ Typed /\ Checked
    BY DEF CreateBundle, PipelineInv
  <1>4. PICK s \in snapshots \cup {Null}, m \in mappings \cup {Null}, p \in plans \cup {Null} :
          l = Lineage(s, m, p)
    BY DEF Lineages
  <1>5. l = [snapshot |-> s, mapping |-> m, plan |-> p]
    BY <1>4 DEF Lineage
  <1>6. l \in LineageRecords /\ Kept(l)
    BY <1>3, <1>5 DEF Typed, LineageRecords, Kept
  <1>7. q \in Lines(Patches) /\ run \in Runs
    BY <1>3, RunsFromRuns DEF Typed
  <1>8. b \in BundleRecords /\ BundleChecked(b)
    BY <1>1, <1>6, <1>7, OptionAssumption, BundlesMade
  <1>9. b.lineage = l /\ b.patch = q
    BY DEF BundleOf
  <1> HIDE DEF b
  <1>10. Artifact(run, b) \in Lines(BundleRecords) /\ Artifact(run, b).says = b
    BY <1>7, <1>8, ArtifactLines
  <1>11. Typed'
    BY <1>2, <1>3, <1>10 DEF Typed
  <1>12. ASSUME NEW c \in bundles'
         PROVE  Kept(c.says.lineage)' /\ c.says.patch \in patches' /\ BundleChecked(c.says)
    <2>1. CASE c \in bundles
      <3>1. Kept(c.says.lineage) /\ c.says.patch \in patches /\ BundleChecked(c.says)
        BY <1>3, <2>1 DEF Checked
      <3>2. Kept(c.says.lineage)'
        BY <1>3, <3>1, KeptGrows
      <3>3. QED
        BY <1>3, <3>1, <3>2
    <2>2. CASE c = Artifact(run, b)
      <3>1. c.says = b /\ c.says.lineage = l /\ c.says.patch = q
        BY <1>9, <1>10, <2>2
      <3>2. Kept(l)'
        BY <1>3, <1>6, KeptGrows
      <3>3. QED
        BY <1>3, <1>8, <3>1, <3>2
    <2>3. QED
      BY <1>2, <2>1, <2>2
  <1>13. Checked'
    BY <1>3, <1>12 DEF Checked
  <1>14. QED
    BY <1>11, <1>13 DEF PipelineInv

\* Whatever is made or edited, the artifacts that are kept are checked.
LEMMA NextKeepsPipeline == PipelineInv /\ [Next]_vars => PipelineInv'
  <1>1. SUFFICES ASSUME PipelineInv, [Next]_vars PROVE PipelineInv'
    OBVIOUS
  <1>2. CASE CreateSnapshot
    BY <1>1, <1>2, SnapshotKeeps
  <1>3. CASE CreateMapping
    BY <1>1, <1>3, MappingKeeps
  <1>4. CASE CreatePlan
    BY <1>1, <1>4, PlanKeeps
  <1>5. CASE CreatePatch
    BY <1>1, <1>5, PatchKeeps
  <1>6. CASE CreateBundle
    BY <1>1, <1>6, BundleKeeps
  <1>7. CASE Edit
    <2>1. UNCHANGED <<snapshots, mappings, plans, patches, bundles>> /\ tree' \in Trees
          /\ Typed /\ Checked
      BY <1>1, <1>7 DEF Edit, artifacts, PipelineInv
    <2>2. Typed'
      BY <2>1 DEF Typed
    <2>3. Checked'
      BY <2>1, BundlesStay DEF Checked
    <2>4. QED
      BY <2>2, <2>3 DEF PipelineInv
  <1>8. CASE UNCHANGED vars
    <2>1. UNCHANGED <<tree, snapshots, mappings, plans, patches, bundles>> /\ Typed /\ Checked
      BY <1>1, <1>8 DEF vars, artifacts, PipelineInv
    <2>2. Typed'
      BY <2>1 DEF Typed
    <2>3. Checked'
      BY <2>1, BundlesStay DEF Checked
    <2>4. QED
      BY <2>2, <2>3 DEF PipelineInv
  <1>9. QED
    BY <1>1, <1>2, <1>3, <1>4, <1>5, <1>6, <1>7, <1>8 DEF Next

\* What every stage makes is checked in every state.
THEOREM PipelineInvariant == Spec => []PipelineInv
  BY InitPipeline, NextKeepsPipeline, PTL DEF Spec

-----------------------------------------------------------------------------
(* What follows from it.                                                     *)

\* Every artifact has its type, with the reasons the stage behind it accepts.
THEOREM PipelineTypeCorrect == Spec => []TypeOK
  <1>1. PipelineInv => TypeOK
    BY DEF PipelineInv, Typed, Checked, BundleChecked, TypeOK
  <1>2. QED
    BY <1>1, PipelineInvariant, PTL

\* A bundle that is ready is of a lineage that is kept in full, whose plan
\* and mapping continued.
LEMMA ReadyLineage ==
  ASSUME PipelineInv, NEW b \in bundles, b.says.readiness.decision = "continue"
  PROVE  LET l == b.says.lineage
             q == b.says.patch
         IN /\ l.snapshot \in snapshots /\ l.mapping \in mappings /\ l.plan \in plans
            /\ q \in patches
            /\ l.snapshot.run = q.run /\ l.mapping.run = q.run /\ l.plan.run = q.run
            /\ l.mapping.says.input = l.snapshot.says
            /\ l.plan.says.input = l.mapping.says
            /\ q.says.input = l.plan.says
            /\ b.says.readiness = Continue
            /\ b.says.edits = l.plan.says.edits /\ b.says.edits # <<>>
            /\ FlagsTrue(q.says.verification)
            /\ q.says.verdict \in {Continue, Verdict("escalate", "policy_blocked")}
            /\ l.plan.says.verdict = Continue /\ l.mapping.says.verdict = Continue
            /\ q.says.edits = l.plan.says.edits
  <1> DEFINE l == b.says.lineage
             q == b.says.patch
  <1>1. /\ Kept(l) /\ q \in patches /\ BundleChecked(b.says)
        /\ b.says.lineage \in LineageRecords
    <2>1. b \in Lines(BundleRecords)
      BY DEF PipelineInv, Typed
    <2>2. b.says \in BundleRecords
      BY <2>1 DEF Lines
    <2>3. b.says.lineage \in LineageRecords
      BY <2>2 DEF BundleRecords, LineageRecords
    <2>4. QED
      BY <2>3 DEF PipelineInv, Checked
  <1>2. /\ Accepted(l, q) /\ b.says.edits = PlanEdits(l)
        /\ b.says.readiness = Continue /\ b.says.edits # <<>> /\ q.says.edits # <<>>
        /\ Complete(l) /\ FlagsTrue(q.says.verification)
    BY <1>1 DEF BundleChecked
  <1>3. DOMAIN l = {"snapshot", "mapping", "plan"}
    BY <1>1 DEF LineageRecords
  <1> HIDE DEF l, q
  <1>4. /\ Given(l) = {"snapshot", "mapping", "plan"}
        /\ l["snapshot"] # Null /\ l["mapping"] # Null /\ l["plan"] # Null
    BY <1>2, <1>3 DEF Complete, Given
  <1>5. l.snapshot # Null /\ l.mapping # Null /\ l.plan # Null
    BY <1>4
  <1>6. l.snapshot \in snapshots /\ l.mapping \in mappings /\ l.plan \in plans
    BY <1>1, <1>5 DEF Kept
  <1>7. l["snapshot"].run = q.run /\ l["mapping"].run = q.run /\ l["plan"].run = q.run
    BY <1>2, <1>4 DEF Accepted, OneRun
  <1>8. /\ l.mapping.says.input = l.snapshot.says
        /\ l.plan.says.input = l.mapping.says
        /\ q.says.input = l.plan.says
    BY <1>2, <1>5 DEF Accepted, MadeFrom
  <1>9. PatchChecked(q.says) /\ PlanChecked(l.plan.says) /\ MappingChecked(l.mapping.says)
    BY <1>1, <1>6 DEF PipelineInv, Checked
  <1>10. /\ q.says.verdict \in {Continue, Verdict("escalate", "policy_blocked")}
         /\ l.plan.says.verdict.decision = "continue"
    BY <1>2, <1>8, <1>9 DEF PatchChecked
  <1>11. l.plan.says.verdict = Continue /\ l.mapping.says.verdict.decision = "continue"
    BY <1>8, <1>9, <1>10 DEF PlanChecked
  <1>12. l.mapping.says.verdict = Continue
    BY <1>9, <1>11 DEF MappingChecked
  <1>13. q.says.edits = l.plan.says.edits
    BY <1>8, <1>9, <1>10 DEF PatchChecked
  <1>14. b.says.edits = l.plan.says.edits
    BY <1>2, <1>5 DEF PlanEdits
  <1>15. QED
    BY <1>1, <1>2, <1>6, <1>7, <1>8, <1>10, <1>11, <1>12, <1>13, <1>14 DEF l, q

\* A ready bundle is of a patch run that continued, or that policy holds up.
THEOREM ReadyBundlesAreReviewable == Spec => []ReadyIsReviewable
  <1>1. PipelineInv => ReadyIsReviewable
    <2>1. SUFFICES ASSUME PipelineInv PROVE ReadyIsReviewable
      OBVIOUS
    <2>2. Continue.decision = "continue"
      BY DEF Continue, Verdict
    <2>3. QED
      BY <2>1, <2>2, ReadyLineage DEF ReadyIsReviewable
  <1>2. QED
    BY <1>1, PipelineInvariant, PTL

\* A bundle that the controller lets through is of one chain of artifacts.
THEOREM AdmittedBundlesAreOneChain == Spec => []AdmittedIsOneChain
  <1>1. PipelineInv => AdmittedIsOneChain
    <2>1. SUFFICES ASSUME PipelineInv, NEW b \in bundles, Admitted(b.says)
          PROVE  LET l == b.says.lineage
                     q == b.says.patch
                 IN /\ l.snapshot \in snapshots /\ l.mapping \in mappings /\ l.plan \in plans
                    /\ {l.snapshot.run, l.mapping.run, l.plan.run} = {q.run}
                    /\ l.mapping.says.input = l.snapshot.says
                    /\ l.plan.says.input = l.mapping.says
                    /\ q.says.input = l.plan.says
                    /\ {l.mapping.says.verdict, l.plan.says.verdict, q.says.verdict}
                         = {Continue}
                    /\ b.says.edits = q.says.edits
      BY DEF AdmittedIsOneChain
    <2>2. b.says.patch.says.verdict.decision = "continue"
          /\ b.says.readiness.decision = "continue"
      BY <2>1, AdmittedContinued
    <2>3. Verdict("escalate", "policy_blocked").decision # "continue"
      BY DEF Verdict
    <2>4. QED
      BY <2>1, <2>2, <2>3, ReadyLineage
  <1>2. QED
    BY <1>1, PipelineInvariant, PTL

\* What such a bundle would change was mapped to one target, lies within the
\* bounds of its plan, and was verified.
THEOREM AdmittedBundlesAreChecked == Spec => []AdmittedIsChecked
  <1>1. PipelineInv => AdmittedIsChecked
    <2>1. SUFFICES ASSUME PipelineInv, NEW b \in bundles, Admitted(b.says)
          PROVE  LET plan == b.says.lineage.plan.says
                     found == b.says.patch.says.verification
                 IN /\ b.says.edits # <<>> /\ Distinct(b.says.edits)
                    /\ Len(plan.input.candidates) = 1
                    /\ PathsOf(b.says.edits) \cap (Outside \cup plan.forbidden) = {}
                    /\ Cardinality(PathsOf(b.says.edits)) <= plan.maxFileChanges
                    /\ Len(b.says.edits) <= plan.maxHunks
                    /\ found.required # {}
                    /\ \A c \in found.required :
                         found.results[c] = [status |-> "pass", evidence |-> TRUE]
      BY DEF AdmittedIsChecked
    <2> DEFINE l == b.says.lineage
               q == b.says.patch
               found == q.says.verification
    <2>2. Distinct(b.says.edits) /\ b.says.readiness.decision = "continue"
      BY <2>1, AdmittedContinued
    <2>3. /\ l.mapping \in mappings /\ l.plan \in plans /\ q \in patches
          /\ l.plan.says.input = l.mapping.says
          /\ b.says.edits = l.plan.says.edits /\ b.says.edits # <<>>
          /\ FlagsTrue(found)
          /\ l.plan.says.verdict = Continue /\ l.mapping.says.verdict = Continue
      BY <2>1, <2>2, ReadyLineage
    <2>4. PatchChecked(q.says) /\ PlanChecked(l.plan.says) /\ MappingChecked(l.mapping.says)
      BY <2>1, <2>3 DEF PipelineInv, Checked
    <2>5. found.required # {}
      <3>1. q \in Lines(Patches)
        BY <2>1, <2>3 DEF PipelineInv, Typed
      <3>2. q.says \in Patches
        BY <3>1 DEF Lines
      <3>3. found \in Verifications
        BY <3>2 DEF Patches
      <3>4. QED
        BY <3>3 DEF Verifications
    <2> HIDE DEF l, q, found
    <2>6. AllPass(found)
      BY <2>3, <2>4 DEF PatchChecked, found
    <2>7. Continue.decision = "continue"
      BY DEF Continue, Verdict
    <2>8. Len(l.plan.says.input.candidates) = 1
      BY <2>3, <2>4, <2>7 DEF MappingChecked
    <2>9. /\ PathsOf(b.says.edits) \cap (Outside \cup l.plan.says.forbidden) = {}
          /\ Cardinality(PathsOf(b.says.edits)) <= l.plan.says.maxFileChanges
          /\ Len(b.says.edits) <= l.plan.says.maxHunks
      BY <2>3, <2>4, <2>7 DEF PlanChecked
    <2>10. \A c \in found.required : found.results[c] = [status |-> "pass", evidence |-> TRUE]
      BY <2>6 DEF AllPass
    <2>11. QED
      BY <2>2, <2>3, <2>5, <2>8, <2>9, <2>10 DEF l, q, found
  <1>2. QED
    BY <1>1, PipelineInvariant, PTL

-----------------------------------------------------------------------------
(* A rollback undoes the edits.                                              *)

\* Some number of a set of naturals is the least.
LEMMA Smallest ==
  ASSUME NEW T \in SUBSET Nat, T # {}
  PROVE  \E x \in T : \A y \in T : x <= y
  <1> DEFINE R == OpToRel(<, Nat)
  <1>1. IsWellFoundedOn(R, Nat)
    BY NatLessThanWellFounded
  <1>2. \A x, y \in Nat : x < y => <<x, y>> \in R
    BY DEF OpToRel
  <1> HIDE DEF R
  <1>3. PICK x \in T : \A y \in T : ~ (<<y, x>> \in R)
    BY <1>1, WFMin
  <1>4. ASSUME NEW y \in T
        PROVE  x <= y
    <2>1. x \in Nat /\ y \in Nat /\ ~ (<<y, x>> \in R)
      BY <1>3
    <2>2. ~ (y < x)
      BY <1>2, <2>1
    <2>3. QED
      BY <2>1, <2>2
  <1>5. QED
    BY <1>4

\* What one edit leaves of the files that are there, and what the first n of a
\* list leave, one after the other.
Left(edit, there) ==
  IF there = Null \/ ~Fits(edit, there) THEN Null ELSE EditedBy(edit, there)
Leaves(edits, files, s, n) ==
  s = [k \in 0..n |-> IF k = 0 THEN files ELSE Left(edits[k], s[k - 1])]

\* Each list of edits leaves something.
LEMMA EditsLeave ==
  ASSUME NEW edits, NEW files, NEW m \in Nat
  PROVE  \E s : Leaves(edits, files, s, m)
  <1> DEFINE T == {n \in Nat : ~\E s : Leaves(edits, files, s, n)}
  <1> SUFFICES ASSUME T # {}  PROVE FALSE
    OBVIOUS
  <1>1. PICK n \in T : \A y \in T : n <= y
    <2>1. T \in SUBSET Nat /\ T # {}
      OBVIOUS
    <2> HIDE DEF T
    <2>2. QED
      BY <2>1, Smallest
  <1>2. n \in Nat /\ ~\E s : Leaves(edits, files, s, n)
    BY <1>1
  <1>3. n # 0
    <2>1. Leaves(edits, files, [k \in 0..0 |-> files], 0)
      BY DEF Leaves
    <2>2. QED
      BY <1>2, <2>1
  <1>4. n - 1 \in Nat /\ n - 1 \notin T
    <2>1. n - 1 \in Nat /\ ~(n <= n - 1)
      BY <1>2, <1>3
    <2> HIDE DEF T
    <2>2. QED
      BY <1>1, <2>1
  <1>5. PICK s : Leaves(edits, files, s, n - 1)
    BY <1>4
  <1> DEFINE g == [k \in 0..n |-> IF k = n THEN Left(edits[n], s[n - 1]) ELSE s[k]]
  <1>6. \A k \in 0..n - 1 : s[k] = IF k = 0 THEN files ELSE Left(edits[k], s[k - 1])
    BY <1>5 DEF Leaves
  <1>7. ASSUME NEW k \in 0..n
        PROVE  g[k] = IF k = 0 THEN files ELSE Left(edits[k], g[k - 1])
    <2>1. k # 0 => k - 1 \in 0..n /\ g[k - 1] = s[k - 1]
      BY <1>2
    <2>2. CASE k = n
      BY <1>3, <2>1, <2>2
    <2>3. CASE k # n
      <3>1. k \in 0..n - 1 /\ g[k] = s[k]
        BY <1>2, <2>3
      <3>2. QED
        BY <1>6, <2>1, <3>1
    <2>4. QED
      BY <2>2, <2>3
  <1>8. g = [k \in 0..n |-> g[k]]
    OBVIOUS
  <1> HIDE DEF g
  <1>9. Leaves(edits, files, g, n)
    BY <1>7, <1>8 DEF Leaves
  <1>10. QED
    BY <1>2, <1>9

\* After is what a list of edits leaves.
LEMMA AfterIs ==
  ASSUME NEW edits, Len(edits) \in Nat, NEW files
  PROVE  \E s : /\ After(edits, files) = s[Len(edits)] /\ s[0] = files
                /\ \A k \in 1..Len(edits) : s[k] = Left(edits[k], s[k - 1])
  <1> DEFINE n == Len(edits)
             Says(s) ==
               s = [k \in 0..n |->
                      IF k = 0 THEN files
                      ELSE IF s[k - 1] = Null \/ ~Fits(edits[k], s[k - 1]) THEN Null
                      ELSE EditedBy(edits[k], s[k - 1])]
             after == CHOOSE s : Says(s)
  <1>1. After(edits, files) = after[n]
    BY DEF After
  <1>2. \A s : Leaves(edits, files, s, n) => Says(s)
    BY DEF Leaves, Left
  <1>3. \E s : Says(s)
    <2>1. \E s : Leaves(edits, files, s, n)
      BY EditsLeave
    <2> HIDE DEF Says
    <2>2. QED
      BY <1>2, <2>1
  <1>4. Says(after)
    <2> HIDE DEF Says
    <2>1. QED
      BY <1>3
  <1> HIDE DEF after
  <1>5. \A k \in 0..n : after[k] = IF k = 0 THEN files ELSE Left(edits[k], after[k - 1])
    BY <1>4 DEF Left
  <1>6. after[0] = files /\ \A k \in 1..n : after[k] = Left(edits[k], after[k - 1])
    BY <1>5
  <1>7. QED
    BY <1>1, <1>6

\* The opposite of an edit that was made fits, and leaves what was there.
LEMMA OppositeUndoes ==
  ASSUME NEW there, there # Null, NEW edit \in Edits, Left(edit, there) # Null, NEW undo,
         undo.path = edit.path, undo.operation = Opposite(edit.operation)
  PROVE  Left(undo, Left(edit, there)) = there
  <1>1. Fits(edit, there) /\ Left(edit, there) = EditedBy(edit, there)
    BY DEF Left
  <1>2. edit.operation \in {"create", "modify", "delete"}
    BY DEF Edits, Operations
  <1> DEFINE after == EditedBy(edit, there)
  <1>3. CASE edit.operation = "create"
    <2>1. edit.path \notin there /\ after = there \cup {edit.path} /\ undo.operation = "delete"
      BY <1>1, <1>3 DEF Fits, EditedBy, Opposite
    <2>2. after # Null /\ Fits(undo, after) /\ EditedBy(undo, after) = after \ {edit.path}
      BY <1>1, <2>1 DEF Fits, EditedBy
    <2>3. after \ {edit.path} = there
      BY <2>1
    <2>4. QED
      BY <1>1, <2>2, <2>3 DEF Left
  <1>4. CASE edit.operation = "delete"
    <2>1. edit.path \in there /\ after = there \ {edit.path} /\ undo.operation = "create"
      BY <1>1, <1>4 DEF Fits, EditedBy, Opposite
    <2>2. after # Null /\ Fits(undo, after) /\ EditedBy(undo, after) = after \cup {edit.path}
      BY <1>1, <2>1 DEF Fits, EditedBy
    <2>3. after \cup {edit.path} = there
      BY <2>1
    <2>4. QED
      BY <1>1, <2>2, <2>3 DEF Left
  <1>5. CASE edit.operation = "modify"
    <2>1. edit.path \in there /\ after = there /\ undo.operation = "modify"
      BY <1>1, <1>5 DEF Fits, EditedBy, Opposite
    <2>2. Fits(undo, there) /\ EditedBy(undo, there) = there
      BY <2>1 DEF Fits, EditedBy
    <2>3. QED
      BY <1>1, <2>1, <2>2 DEF Left
  <1>6. QED
    BY <1>2, <1>3, <1>4, <1>5

\* A list that leaves something does so after each of its edits.
LEMMA LeavesAllAlong ==
  ASSUME NEW n \in Nat, NEW edits, NEW s, s[n] # Null,
         \A k \in 1..n : s[k] = Left(edits[k], s[k - 1])
  PROVE  \A k \in 0..n : s[k] # Null
  <1> DEFINE T == {j \in 0..n : s[n - j] = Null}
  <1> SUFFICES ASSUME T # {}  PROVE FALSE
    <2>1. \A k \in 0..n : n - k \in 0..n /\ n - (n - k) = k
      OBVIOUS
    <2>2. QED
      BY <2>1
  <1>1. PICK j \in T : \A y \in T : j <= y
    <2>1. T \in SUBSET Nat /\ T # {}
      OBVIOUS
    <2> HIDE DEF T
    <2>2. QED
      BY <2>1, Smallest
  <1>2. j # 0 /\ j \in 0..n /\ s[n - j] = Null
    BY <1>1
  <1>3. s[n - (j - 1)] = Null
    <2>1. n - (j - 1) \in 1..n /\ n - (j - 1) - 1 = n - j
      BY <1>2
    <2>2. QED
      BY <1>2, <2>1 DEF Left
  <1>4. j - 1 \in T
    BY <1>2, <1>3
  <1>5. j <= j - 1
    <2> HIDE DEF T
    <2>1. QED
      BY <1>1, <1>4
  <1>6. QED
    BY <1>2, <1>5

\* The opposites of a list of edits, from the last to the first, undo it.
LEMMA ReversedUndoes ==
  ASSUME NEW edits \in Seq(Edits), NEW files, After(edits, files) # Null
  PROVE  After(Reversed(edits), After(edits, files)) = files
  <1> DEFINE n == Len(edits)
             back == Reversed(edits)
  <1>1. n \in Nat /\ DOMAIN edits = 1..n /\ \A k \in 1..n : edits[k] \in Edits
    OBVIOUS
  <1>2. Len(back) = n /\ \A k \in 1..n :
          /\ back[k].path = edits[n + 1 - k].path
          /\ back[k].operation = Opposite(edits[n + 1 - k].operation)
    <2>1. back \in Seq(Edits)
      BY ReversedType
    <2>2. DOMAIN back = 1..n
      BY <1>1 DEF Reversed
    <2>3. Len(back) = n
      BY <1>1, <2>1, <2>2, LenProperties
    <2>4. QED
      BY <1>1, <2>3 DEF Reversed
  <1> HIDE DEF n, back
  <1>3. PICK s : /\ After(edits, files) = s[n] /\ s[0] = files
                 /\ \A k \in 1..n : s[k] = Left(edits[k], s[k - 1])
    BY <1>1, AfterIs DEF n
  <1>4. PICK t : /\ After(back, s[n]) = t[n] /\ t[0] = s[n]
                 /\ \A k \in 1..n : t[k] = Left(back[k], t[k - 1])
    <2>1. Len(back) \in Nat
      BY <1>1, <1>2
    <2>2. PICK t : /\ After(back, s[n]) = t[Len(back)] /\ t[0] = s[n]
                   /\ \A k \in 1..Len(back) : t[k] = Left(back[k], t[k - 1])
      BY <2>1, AfterIs
    <2>3. QED
      BY <1>2, <2>2
  <1>5. \A k \in 0..n : s[k] # Null
    BY <1>1, <1>3, LeavesAllAlong
  <1> DEFINE T == {k \in 0..n : t[k] # s[n - k]}
  <1>6. ASSUME T # {}  PROVE FALSE
    <2>1. PICK k \in T : \A y \in T : k <= y
      <3>1. T \in SUBSET Nat
        BY <1>1
      <3> HIDE DEF T
      <3>2. QED
        BY <1>6, <3>1, Smallest
    <2>2. k \in 1..n /\ t[k] # s[n - k]
      BY <1>1, <1>4, <2>1
    <2>3. k - 1 \notin T
      <3>1. ~(k <= k - 1)
        BY <1>1, <2>2
      <3> HIDE DEF T
      <3>2. QED
        BY <2>1, <3>1
    <2> DEFINE m == n + 1 - k
    <2>4. m \in 1..n /\ n - (k - 1) = m /\ m - 1 = n - k /\ k - 1 \in 0..n
      BY <1>1, <2>2
    <2> HIDE DEF m
    <2>5. t[k - 1] = s[m] /\ s[m] = Left(edits[m], s[n - k]) /\ s[m] # Null /\ s[n - k] # Null
      BY <1>1, <1>3, <1>5, <2>3, <2>4
    <2>6. back[k].path = edits[m].path /\ back[k].operation = Opposite(edits[m].operation)
      BY <1>2, <2>2 DEF m
    <2>7. t[k] = Left(back[k], s[m])
      BY <1>4, <2>2, <2>5
    <2>8. Left(back[k], s[m]) = s[n - k]
      BY <1>1, <2>4, <2>5, <2>6, OppositeUndoes
    <2>9. QED
      BY <2>2, <2>7, <2>8
  <1>7. t[n] = s[0]
    BY <1>1, <1>6
  <1>8. QED
    BY <1>3, <1>4, <1>7 DEF back

\* The rollback that a ready bundle brings along (runtime/src/pr-bundle.ts) undoes
\* its edits, whatever files they are made on, if they can be made at all.
THEOREM ReadyRollbackUndoesEdits == Spec => []RollbackUndoesEdits
  <1>1. PipelineInv => RollbackUndoesEdits
    <2>1. SUFFICES ASSUME PipelineInv, NEW b \in bundles, b.says.readiness = Continue,
                          NEW files \in SUBSET (Files \ Outside),
                          After(b.says.edits, files) # Null
                   PROVE  After(b.says.rollback, After(b.says.edits, files)) = files
      BY DEF RollbackUndoesEdits
    <2>2. b.says.rollback = Reversed(b.says.edits)
      BY <2>1 DEF PipelineInv, Checked, BundleChecked, Continue, Verdict
    <2>3. b.says.edits \in Seq(Edits)
      <3>1. b \in Lines(BundleRecords)
        BY <2>1 DEF PipelineInv, Typed
      <3>2. b.says \in BundleRecords
        BY <3>1 DEF Lines
      <3>3. QED
        BY <3>2 DEF BundleRecords
    <2>4. QED
      BY <2>1, <2>2, <2>3, ReversedUndoes
  <1>2. QED
    BY <1>1, PipelineInvariant, PTL
=============================================================================
