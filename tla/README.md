# Verification of l-semantica

TLA+ models of l-semantica, the TLC runs that check them and the theorems TLAPS
proves about them. Paths below are relative to `src/`; line numbers are in
`PROJECT.json`, whose `map` names the code behind every definition.

## 1. The system

l-semantica compiles `.ls` documents (`compiler/`), runs a semantic IR under a
verification contract and a policy (`runtime/src/index.ts`), and carries an
intended change of a workspace through a chain of artifacts, from a snapshot of
the workspace to an applied or rolled back patch (the "M2" pipeline of
`rfcs/002`). Everything is a synchronous function of its arguments and of the
file system; there are no threads and no promises. What is hard is what happens
*between* the functions: the tree they read and write belongs to users, editors,
git and other processes as well, records outlive the state they describe, and a
process can die anywhere.

| component | state it keeps | operations | talks to | what makes it correct |
|---|---|---|---|---|
| apply/rollback controller, `runtime/src/apply-rollback.ts` | none of its own; reads and writes the workspace, returns records | `createApplyRollbackRecordArtifact` (apply, rollback, dry run) | PR bundles, earlier records, a benchmark report, the file system | no write unless every RFC-002 check holds; what is overwritten is in the record; a rollback restores or says it did not; nothing half done without a record |
| PR bundle, `pr-bundle.ts` | artifact | `createPrBundleArtifact` | patch run, diff plan, mapping, snapshot (lineage) | ready only with complete sections, lineage of one run |
| patch run, `patch-run.ts` | artifact | `createPatchRunArtifact` | safe diff plan, verification results | continues only with all required checks passed and no sensitive path |
| safe diff plan, `safe-diff-plan.ts` | artifact | `createSafeDiffPlanArtifact` | intent mapping | no forbidden path, within the change bounds, no conflicting edits |
| intent mapping, `intent-mapping.ts` | artifact | `createIntentMappingArtifact` | snapshot, live files | continues only on one candidate that is clear of the others and of the threshold |
| workspace snapshot, `workspace-snapshot.ts` | artifact | `createWorkspaceSnapshotArtifact` | file system, git | describes one state of the tree |
| repair loop, `repair-loop.ts` | excerpt, history, attempt count | `runRuleFirstRepairLoop` | feedback tensor, trace inspection | bounded; a terminal rule is never retried past |
| continuation gate, `continuation-gate.ts` | none | `evaluateContinuationGate` | contract, policy, feedback | more passed checks never make the decision worse |
| runtime, `index.ts` | none | `runSemanticIr` | gate, ledger, feedback, inspection | one ledger entry per run; a reference that is said to be written points at a record |
| compiler, `compiler/src` | token cursor, diagnostics | `lex`, `parseLsDocument` | | always ends; every line is an item or a diagnostic |
| reliability gates, `benchmarks/*.mjs` | report | evaluate fixtures, compare with thresholds | repair loop, gate | rates are of the fixtures run |

The hazards of this code, each with its line and with the properties that cover
it, are listed in `PROJECT.json`. Three kinds dominate: reads that are stale when
used (capture before write, digest of an earlier record, candidates of an
earlier snapshot), several writes of which some fail, and chains of gates in
which the first that speaks decides.

## 2. The modules

Of the change of a workspace, from the snapshot to the applied patch:

* **`WorkspaceScan`** - how a workspace is read: `Begin`, `List` (readdir), `Stat`, `Read`, then for
  a snapshot `RevParseHead`, `RevParseBranch`, `StatusPorcelain`, any of which may fail (`GitFails`),
  for a mapping `Collected`; `Return`. Meanwhile users `Edit`, `Commit` and `CheckOut`. A call that
  finds a path gone, or a directory where it read a file, throws: the scan is `Idle` without a result.
  `seen` and `seenRepo` are history variables, what there has been since the scan began.
* **`WorkspaceScanProofs`** - the theorems about it.
* **`Stages`** - constant-level: what intent mapping, safe diff plan and patch run make of their
  input and options, one operator per decision, in the order of the code.
* **`Bundles`** - constant-level: what a PR bundle accepts as lineage, its rollback, sections and
  readiness, and what the first gates of the controller (`ApplyGates`, by INSTANCE) make of it.
* **`Pipeline`** - composes them: artifacts of five kinds are kept, a call makes an artifact of any
  that are there (of other runs and of earlier states of the workspace as well), and the workspace is
  edited between calls.
* **`PipelineProofs`** - the theorems about it.
* **`ApplyGates`** - constant-level: the gates of
  `createApplyRollbackRecordArtifact`, one operator per `decideFrom...` function,
  the target-state preconditions, and `Decide`, the loop over
  `decisionOverrides`. A gate that returns `null` returns `Pass`; `??` takes the
  first that speaks.
* **`Workspace`** - constant-level: what the Node calls of the controller
  (`existsSync`, `statSync`, `readFileSync`, `rmSync {force}`, `mkdirSync
  {recursive}`, `writeFileSync`) do to the paths of a tree, with directories and
  with paths that lie below other paths.
* **`ApplyRollback`** - the state machine: `ws` is the tree, `call[c]` what
  caller `c` is doing, `records` the records returned so far. `Begin` normalises
  the inputs, `Capture` reads one path (before the decision, and again after the
  writes), `Conclude` decides and returns a record or goes on to write, `Write`
  writes one path, `Written` starts the reading back, `Return` compares and
  returns the record, `Throw` is `EXECUTION_FAILED`. Around it: `Fail` (the process
  dies or an fs call fails, with a torn file or with only the parent directories
  made), `Edit` and `RemoveDirectory` (users, editors, git).
* **`UndoLog`** - the abstract specification: files change by whole plans, every
  apply leaves an entry, an entry is undone as a whole where its after-state is
  what is there.
* **`ApplyRollbackProofs`** - the theorems under any interleaving, those of undisturbed calls, that
  the controller implements `UndoLog`, and that where bundle content is left, some record fits.

Of the running of a semantic IR and its repair:

* **`Telemetry`** - constant-level: the append-only files of the runtime (trace
  ledger, FeedbackTensor, trace inspection). A file is its finished lines and
  whether a piece of a line is at its end. An append is one `appendFileSync` with
  `O_APPEND`, so that two processes' appends do not mix; one that throws, or whose
  process dies, has left nothing, a piece or all of its line, and the next line
  is glued to a piece.
* **`TelemetryProofs`** - lemmas: what an append does to the lines that are there, and how records that
  were taken for written and cannot be read are counted.
* **`ContinuationGate`** - constant-level: `evaluateContinuationGate`, on which checks were
  reported (several results of one check: the last stays), which passed, and the counts behind the ratio.
* **`RuntimeRun`** - `runSemanticIr`: `Begin`, `Evaluate` (validation, invocation and gate, up to
  the `finally` block), `Emit`, one append to one of four files, `Return` to the caller; `Crash`.
* **`PureRun`** - the abstract specification of `RuntimeRun`: an answer that depends on the input
  alone, or none where the process dies. No files in it.
* **`RuntimeRunProofs`** - the theorems about `RuntimeRun`, and that it implements `PureRun`.
* **`RepairRules`** - constant-level: `REPAIR_RULES` as a table of twelve rows, each
  with the class, stage, artifacts and mark it looks for and what it does.
* **`RepairLoop`** - the state machine of `runRuleFirstRepairLoop`: `Begin` checks the
  input, `Retry` is an attempt whose rule asks for another, `Conclude` the one that
  ends the loop and makes the result, `Emit` one append, `Return` hands the
  result over; `Crash` is the death of the process, during an append or not.
* **`RepairLoopProofs`** - the theorems about verdicts, and about what the files say of them.

Of the compiler:

* **`LsGrammar`** - constant-level: units (a character as far as the lexer tells it apart, or a
  keyword) and two languages, defined on lines: the documented one (`IsIdentifier`, `IsGoal`, `IsNamed`,
  `LineKind`, from the EBNF of `docs/spec/minimal-ls-grammar.md`) and the one the lexer and the parser take
  (`IsName`, `AcceptsGoal`, `AcceptsNamed`, `AcceptedKind`), in which blanks may be left out and keywords
  are no names. Strings and the order of the lines (`IsDocument`) are the same in both.
* **`LsDocument`** - `parseLsDocument`: the lexer with one action per branch of its loops, then
  the parser with one per branch of its loop (`ParseGoal`, `ParseCapability`, `ParseCheck`,
  `SkipLine`) and `Conclude`, the checks for missing declarations.
* **`LsDocumentProofs`** - the theorems about it, but for one:
* **`LsLanguageProofs`** - that what it accepts are the documents of lines as `AcceptedKind` says.

**`MC...`** give the constants of the module of that name their values. The inputs of the repair loop and of the
runtime are given per caller: one process has all of them, the other the few that the files are told of.

What is abstracted:

* *Controller.* A path is its rank in the order `compareStableStrings` gives
  (the code iterates over sorted paths), with `Above` telling which path lies below
  which; a content is a value up to equality of its SHA-256, and equality of
  snapshots stands for equality of digests; the contents that a bundle gives its
  files are one value per bundle; a glob pattern is the set of changed paths it
  matches; the JSON validation of inputs is the type of what survives it
  (`BundleType`, `OptionType`), and a call that throws there has no effect and is
  left out. A record is identified by the digest of its contents, so records are
  a set of values.
* *Stages.* What scoring finds, sorted, is the constant `Found`, a function of the workspace and the
  intent (confidences are in ten-thousandths; whether a difference of doubles that should be the gap
  itself comes out above it is left open); the operation an intent asks for is the constant
  `OperationOf`. An artifact id is a digest of what the artifact says, so a reference is what the
  artifact says; the run id is beside it, as in the code it is not digested. An edit of a plan is its
  path and operation, and the patch text is the list of edits.
* *Scan.* Which directory and which file is next is left open (the code sorts). A hash is the content
  it is of. A directory's entries are listed in one step, as `readdir` does.
* *Gate and runtime.* A policy profile is the set of assertions it satisfies, a FeedbackTensor the set
  of sections it has; ratios are exact where the code has doubles. Run and trace ids are
  one number per invocation.
* *Repair loop.* An excerpt is the set of marks in it, one
  for what each rule looks for. Marks that no excerpt can have together are never
  given together (an excerpt that is `goal "` and one that starts with it and goes
  on). No rule of the table sets `nextExcerpt`, so that the excerpt stays the same
  in every attempt. Reason codes of the rules follow from rule and outcome and
  are one value, the two of the loop itself are kept. Every class has rules:
  `NO_RULES_REGISTERED` and the return behind the loop cannot be reached. Run and feedback ids
  are one number per call; callers that hand in an id twice get what they ask
  for and are left out. The text of entries is left out but for the fields
  that say what a call decided and what it links to.
* *Compiler.* Positions are offsets instead of lines and columns; a message is the token it is about.
  The guard against a parser that does not move on (`parser.ts:127`) has no action, since it is never needed
  (`NoStepStandsStill`); the report of a missing goal behind the loop (`parser.ts:145`) is in `Conclude`, and
  `NoGoalIsMissing` shows that it is never made.

### Settings

`ApplyRollback` has three specifications:

* `Spec`: any number of callers; everything may come between any two file system
  calls of a call.
* `QuietSpec`: one call at a time, users work only between calls, nothing fails.
  This is the setting the controller is written for: one synchronous Node
  process, no lock.
* `OnceSpec`: as `QuietSpec`, nobody else at work at all and every bundle applied
  at most once.

The others have one, with everything at work; what holds only of an undisturbed scan says so
(`UndisturbedIsExact`).

## 3. The runs

`MaxRecords`, `MaxCalls`, `MaxChanges`, `MaxOfEach` and `MaxArtifacts` bound the records of the
controller, the calls of the repair loop and of the runtime, the changes of users during scans, and the
artifacts that are kept, of one kind and of all. Nothing new starts once a bound is reached.

| run | module | instance | shows |
|---|---|---|---|
| `quiet` | `ApplyRollback`, Quiet | path 2 lies below path 1; 4 bundles, 8 with one flaw each, 11 options, 2 records | types; no write without every RFC-002 check, for an apply and for the rollback of it; what is overwritten was captured; an executed call reads back what it was to write; a throw after the first write only where edited paths clash |
| `once` | `ApplyRollback`, Once | three bundles that share two paths side by side, dry runs, 5 records | the controller implements `UndoLog`; where bundle content is left some record still fits: nobody is stranded |
| `busy` | `ApplyRollback`, full | two callers, one path, users, failures, 2 records | a rollback that claims to have restored has seen the prior state; every call ends |
| `dry_run_undone` | `ApplyRollback`, Quiet | one path | expected violation, see Findings |
| `repair` | `RepairLoop` | two processes, two calls; one process has every class with every set of marks, where its rules look and elsewhere, under the default limit, and the two classes in which a rule may ask again also under 1, 3 and the absolute limit of 10; three failures are told to files, whose appends fail; crashes | types and limits; the loop ends, with the verdict of its first settling attempt and its whole history; one record of a call per file, all saying what it returned; links that are said to be emitted resolve |
| `hard_stops` | `RepairLoop` | one call, the classes that have a hard stop | expected violation, see Findings |
| `run` | `RuntimeRun` | two processes, two invocations; one process has three contracts, 4 profiles, 8 lists of results with warnings or none, 2 FeedbackTensors, and the ends before the gate; an invocation that passes and one that is blocked are told to three files or two, whose appends fail; crashes | types; better evidence never blocks; what is let through has what its contract asks for; the files tell one outcome per invocation, the one its caller got; links that are said to be emitted resolve; implements `PureRun`; every invocation ends |
| `feedback_links` | `RuntimeRun` | one invocation, that passes or is blocked | expected violation, see Findings |
| `pipeline` | `Pipeline` | two runs, two states of the workspace, two intents, 8 plan options, 5 lists of results, 9 ways to pack; 6 artifacts, at most 2 of a kind | types; an admitted bundle is of one chain, and checked at every stage; a ready one is reviewable, and its rollback undoes its edits |
| `scan` | `WorkspaceScan` | a file, a directory with a file, an ignored file, one git ignores; two contents, two branches; 3 changes | records are of their time; what was never as in the head is in the status; an undisturbed scan is exact; every scan ends |
| `ls` | `LsDocument` | documents of up to 3 lines of 17 forms, of 4 lines of 7 forms, of up to 2 lines of up to two units and of strings that end badly; either line break after each line | accepted is what is so line by line; one answer per line; no failure without a diagnostic; no unit passed over; parsing ends |
| `ls_documented` | `LsDocument` | the documents of `ls` | expected violation, see Findings |

Why the bounds are enough:

* *Controller.* Two paths are the least on which a bundle can be half
  written, on which two bundles overlap without being equal and on which one path
  lies below another. Two records are an apply and its rollback; the gates depend on one call and one
  prior record, so that two records meet every gate from both actions. Five are three applies and two
  rollbacks in any order, or fewer with dry runs between them.
* *Repair loop.* A rule does the same from its second attempt on (`RulesSettle` proves it), so
  that the limits 1, 2 (the default) and 3 meet every way a loop can go, and 10 is the last that is
  accepted. Two calls are the least that can
  meet in one file, in two processes or one after the other; the same holds of the runtime.
* *Gate.* `MoreEvidenceNeverBlocks` relates two invocations. Two checks are the least of which one
  can pass and one fail under a ratio of two thirds with an assertion, and three results the least in which an
  earlier one is replaced.
* *Pipeline.* Five artifacts are a chain; the sixth, of any kind, is what another run, another state
  of the workspace or another option made, and can be put in place of its like. That two places of a lineage are
  wrong at once is left to the theorem. One check with every status stands for the required ones, as
  each of the three conditions is of all of them.
* *Scan.* Three changes are the least that can move a file out of sight of a scan and bring it back,
  or exchange a file for a directory with a file.
* *Compiler.* Parser states are the section, the token and which declarations there were; three lines are the goal, one
  more declaration and one that comes too early, late or again, four add the line after a recovery.

`CHECK_DEADLOCK FALSE`: in the runs that have it nobody else is at
work, and the system really stops once its budget of records, calls, changes or artifacts is used up or
its document is parsed.

Two conditions of `NeverStranded` are needed: a bundle applied a second time (after its
file was put back by other means) or one that deletes can bring an earlier digest back, and
then the rollbacks can be taken in an order that strands content of a bundle. The digest comparison
of the code is a compare of values, not of versions.

Fairness: `WF_vars(Step(c))` says that a call under way goes on. A call is one
synchronous function of a running process: the Node event loop cannot suspend
it, and each of its steps is a blocking system call. Beginning calls, users and
failures are not fair: they may never come. Only the three `CallsEnd`, `ScansEnd` and `ParsingEnds` need it. In the
controller it is not hollow, as others may change the path the call is at between any two steps, and a call
that finds it unreadable or unwritable must throw rather than wait; in the repair
loop no failing append may hold the call, and every retry must count; in the runtime every way out of the
invocation must lead through the emissions; a scan works off a list that grows while it does, and ends because
each path is put on it once; the lexer's and the parser's loops end because every branch moves on, the recovering ones
included.

Every property has a mutant in `PROJECT.json`: a plausible bug (named as such in
the module) under which the run's property fails.

## 4. What is proved

For every set of paths, contents, bundles, options and callers, under the
assumptions named in `ApplyGates` and `ApplyRollback` (paths are numbers;
`Absent`, `Null` and `Dir` are not contents; the idle mark is not a call; `Above`
is a strict order; bundles and options have their types):

`ApplyRollbackProofs`, under any interleaving with users, failures and callers:

* `TypeCorrect`: `Spec => []TypeOK`.
* `OnlyAuthorizedCallsMutate`: `Spec => []MutationIsAuthorized`. The argument:
  every gate returns `Pass` or something that does not continue
  (`GateVerdicts`); `??` of two such gates is one, and is `Pass` only if both
  are; so that `Decide` continues only where every gate passes, and each gate's
  passing gives its line of `Authorized` (`ContinuedIsAuthorized`).
* `RestoredMeansPrior`: `Spec => []RestoredIsPrior`.

The invariant: `IInv == TypeOK /\ CallsOK /\ RestoredIsPrior`. `CallsOK` is the
strengthening. `MutationIsAuthorized` speaks of calls that write, and is
established in `Conclude` from what `Begin` checked (the prior record is an
apply that continued), so the invariant carries that from `Begin` on. And
`TypeOK` is inductive only because a rollback writes no path that its prior
record has no entry for. One lemma per action shows that it keeps `IInv`.

Of `QuietSpec`, in the same module, on every tree, nested or not:

* `UndisturbedReadsBack`: `QuietSpec => []ReadsBackTargets`.
* `UndisturbedKeepsWhatItOverwrites`: `QuietSpec => OverwritesOnlyCaptured`.
* `UndisturbedIsAllOrNothing`: `QuietSpec => AllOrNothing`.

The invariant is `QuietInv`: `IInv`, at most one caller is under way
(`AtMostOne`), a record knows each of its bundle's paths (`RecordsCover`), and the
call under way knows the tree (`CallsKnow`): what it has captured is what is
there, the paths it has written hold what it was to write, and the others still
hold what was captured. None of the three properties is inductive without
`CallsKnow`, which is what an interleaved user breaks in `Spec`.

`Refinement`: `QuietSpec => ImplementsUndoLog` under `Flat`
(no path lies below another). `RefInv` is `QuietInv` and `PriorReturned`: the prior
record of a call is one of the records returned. `UndoLog`'s step happens
at the call's `Return`; before it the files of the abstract tree are those the
call captured. On a tree with nested edits a call can throw half way, and there
the refinement fails: `AllOrNothing` says exactly where.

`SomeRecordFits`: `OnceSpec => []NeverStranded`, under `Flat` and `OwnContents`: a bundle
deletes nothing, writes no content that users have, and shares its content with no other
bundle. Section 3 says what goes wrong without; the constants of `once` satisfy both. The argument
sees the files as layers. `Live` are the records of what was applied and not
rolled back; `q` lies `Over` `r` where it found at a path what `r` wrote. `Layered`: bundle content that is there is the layer of
a live record; what a live record wrote at a path is there, or another live record lies over it there; bundle content
that a live record found is no longer there, is another's layer, and was found by one only; and in every set of live records there is one
that no other of the set lies over. That one fits. `LayerAdded` and `LayerRemoved` show that an apply lays a layer on top and
that a rollback, which is refused anywhere but at the top, takes one away. `RecordsTell` ties records to
bundles, so that layers can be told apart (`LayersDiffer`).

`RepairLoopProofs`, for all failures and options that pass the input checks and any number of
processes:

* `RepairTypeCorrect`: `Spec => []TypeOK`, with every attempt within its limit.
* `ResultsAreVerdicts`: `Spec => []ResultIsVerdict`.
* `MoreAttemptsKeepTheVerdict`: a larger `maxAttempts` changes the decision only of
  failures that were stopped for want of attempts.

`ResultIsVerdict` looks at results only; `VerdictInv` adds to it and `TypeOK` what a
call in its attempts knows (`Attempting`: no attempt before this one settled, and all of
them are in the history) and what it has after them (`Concluded`: a result).

* `OneOutcome`: `Spec => []OneOutcomePerCall`.
* `LinksAreKept`: `Spec => []LinksResolve`. The link is the documented one,
  `feedback_tensor.feedback_id`. Where the inspection entry says emitted it leads to a record, but for
  those glued to a torn line; where it says not emitted it may lead nowhere (see Findings), but if the record
  is in the file after all (an append can throw when its line is written) it leads to that record.

For `OneOutcome`, `SinkInv` adds to `VerdictInv` that ids tell calls apart (`IdsApart`), that a line with the id of a
call under way was written by it, to a file it is past, and says what its
result says (`LinesKnown`). Without the order of the emissions a call could find
its line already there. `LinksResolve` is not inductive: it speaks of the inspection's lines, and these are
written after the appends they tell of. `LinkInv` counts earlier: of the calls that took their append for
done, whether they have told of it yet or not, no more are without a readable record than there are lines
that cannot be read (`LostCounted`: an append that is done adds a record or one such line). `OwnLinks` is for the rest: a call that took its
append for done, or whose record can be read, has the id of that record and no other, and so has its inspection entry.
Before its append a call has no record (`BeginsUnrecorded`: what the lines say is of calls that have begun), and the append itself sets the id, done or not.

`RuntimeRunProofs`, for all contracts, policies and lists of results over finite sets of checks and assertions
(`GateAssumption`: without it a count means nothing), and any number of processes:

* `RunTypeCorrect`: `Spec => []TypeOK`.
* `RecordsAgree`: `Spec => []RecordsTellOutcome`.
* `ContinuedRunsAreVerified`: `Spec => []ContinuedIsVerified`.
* `MoreEvidenceIsEnough`: `Spec => []MoreEvidenceNeverBlocks`.
* `LinksAreKept`: `Spec => []LinksResolve`.
* `RunRefinement`: `Spec => ImplementsPureRun`.

The invariant is `RunInv`: types, an invocation past its evaluation has the outcome of its input (`Evaluated`), one
that returned has it too (`Answered`), ids tell invocations apart, and a line of an invocation under way is in
a file it is past and tells its outcome (`LinesKnown`). `Evaluated` and `Answered` say that no emission changes an outcome, and so reduce the
two theorems about evidence to the gate. There, the gate works on the last result
of each check, and the theorems on what the list says in the end, so a lemma finds the last result of a check that has
one; the required checks and assertions that are met are subsets of one another where the evidence is better, and counts
follow. `LinkInv` and `OwnLinks` are as in the repair loop, `LinkInv` for two files. `PureRun` answers where `RuntimeRun`
returns; evaluation and emissions, done or failed, are stutters, and a crash loses the invocation.

`PipelineProofs`, for all files, intents, scorings (`Found`, sorted by confidence), options and runs:

* `PipelineTypeCorrect`: `Spec => []TypeOK`.
* `ReadyBundlesAreReviewable`: `Spec => []ReadyIsReviewable`.
* `AdmittedBundlesAreOneChain`: `Spec => []AdmittedIsOneChain`.
* `AdmittedBundlesAreChecked`: `Spec => []AdmittedIsChecked`.

An artifact does not change, so `PipelineInv` says of each kept one that it is what its stage makes
of its input (`MappingChecked`, `PlanChecked`, `PatchChecked`, `BundleChecked`), and of a bundle that its patch and its
lineage are artifacts that were kept. The last is needed: a lineage is handed in beside the patch, and only what the
bundle compares ties the two together. Of a chain the theorems then collect what each stage had checked.

* `ReadyRollbackUndoesEdits`: `Spec => []RollbackUndoesEdits`.

What a list of edits leaves is a recursive function along the list, and the prover has no induction that could be applied to it.
Instead, the naturals are well-founded: a set of them that is not empty has a least member (`Smallest`), and the least place at which
the function were not defined (`EditsLeave`), or the rollback left anything but what the edits
had found there (`ReversedUndoes`), contradicts itself. `OppositeUndoes` is the one step.

`WorkspaceScanProofs`, for all trees of paths (`PathAssumption`: going up from any path leads to the root), contents, branches, ignored
paths and any order in which directories are listed and files read:

* `ScanTypeCorrect`: `Spec => []TypeOK`.
* `RecordsAreOfTheirTime`: `Spec => []EachPathWasSo`.
* `DirtIsInTheStatus`: `Spec => []DirtIsNoticed`.
* `UndisturbedScansAreExact`: `Spec => []UndisturbedIsExact`.
* `ScansMoveOn`: `Spec => [][ScanMovesOn]_vars`: with each step of a scan there is less to list, to stat, to read or to ask git for,
  and what users do adds nothing to it.

`ScanInv` adds to the types: a path is dealt with once (`OnceEach`); what was reached has no ignored path above it
and none that is still to be listed (`ListedAbove`), so that nothing is listed twice; sizes and contents are of
their time (`Timely`); a file that stayed in place is recorded, or is to be read or statted, or a directory above it is
still to be listed (`NotMissed`, which makes "finished" mean "complete"); and what git told is still so if the repository
and the file are, and of the files it did not name each has been as in the head (`GitKnown`).

`LsDocumentProofs`, for all documents of lines without a line feed, and without a return before their break, which would be part of it (`LineAssumption`), with either break after each line; `NullAssumption`
says that `Null` is no unit, position or tree:

* `LsTypeCorrect`: `Spec => []TypeOK`.
* `EveryUnitIsAccounted`: `Spec => []EveryUnitIsLexed`.
* `NoDocumentFailsSilently`: `Spec => []NoSilentFailure`.
* `OneAnswerForEachLine`: `Spec => []OneAnswerPerLine`.
* `NoStepStandsStill`: `Spec => [][MovesOn]_vars`: the lexer takes at least a unit, but where it gives an open string up,
  and the parser's loop at least a token.
* `NoGoalIsMissing`: `Spec => []GoalIsAnswered`: a goal that is not declared has had its diagnostic when the parser
  comes to its last check.

The invariant has three parts. `LexInv`: tokens come in order and end before `LexedTo`, which is where the lexer is or where the string
it is in has started, and the units before are accounted for (`Accounted`); an unclosed string is not, until
`BreakString` reports all of it. `ParseInv`: what the tree is made of are whole declarations, and where the parser has come to a keyword and
has nothing declared, there is a diagnostic. `AnswerInv`: the parser stands where a line ends or starts, its diagnostics are about
tokens it is past, and the lines it is past are answered. For that, `MatchedIs` and `RestOfLineIs` show that a declaration, whole or not,
and the token its diagnostic is about are on one line, and `EarlierLine` that no diagnostic of one line is about a token of another.
The operators that CHOOSE (`WordEnd`, `PastNewlines`, `LineBoundary`, `Matched`, `Max`) and `FlattenSeq` are
each shown to have what they choose, again by least members.

`LsLanguageProofs`, for the same documents:

* `ExactlyTheLanguage`: `Spec => []AcceptsItsLanguage`.

`AcceptedKind` cuts a line where it can, the automaton goes through it once, and the argument that they agree goes by tokens.
`Shaped` says which units make a word or a string, with no word behind a word; `LexOf(T, x, y)` that the tokens `T` are such, do not overlap, and leave
only blanks of the text between `x` and `y`. No text has two such sets of tokens (`LexedOnce`, by least members again: two tokens that start at one place
end at one place, since a string ends at its first quote that is not escaped and a word where it has no more letters). A line is blank, a goal or a named declaration exactly
if it has a `LexOf` of no token, of two or of three of the right kinds (`BlankLexes`, `GoalLexes`, `NamedLexes`).

`LangIInv` is the invariant. To the three parts above it adds `LangInv`: the lines are somewhere in the source (`Layout`, which the initial
state has by `SourceIsJoined`); as long as the lexer has not complained its tokens are a `LexOf` of what it has read (`Clean`); and
once it has complained, the line that it did so in has no `LexOf` at all, so that no cut makes it a declaration (`WrongLine`). And it adds
`FormInv`, for the parser: without a diagnostic it has kept every line of tokens it is past as what it is (`Accepted`), and with one the lines of tokens are not
a goal, capabilities and checks, in that order (`~WellFormed`). The second half needs the first: a
complaint about a line is one about the document only because no line before it was misread. `DocumentTells` ends the argument: lines that are
not blank and tokens that open a line correspond to one another, in order and kind, so that `WellFormed` of the tokens is `IsDocument` of the lines.

Only model-checked: liveness (ENABLED and fairness are beyond the prover). What is proved of it, for every document and every tree, is that steps
move on, so that what the model checker adds to it for `ParsingEnds` and `ScansEnd` is that there is a step to be taken.

## 5. Findings

* **A dry run can be rolled back** (`dry_run_undone`). `runtime/README.md:294` says
  "Rollback requires a prior successful apply record". The controller looks at
  `action` and `decision` of the record, not at `executed`: a dry run returns
  `continue`, its after-state is its before-state, and a rollback from it passes
  every gate, rewrites every file with what it holds and reports that it
  restored the prior state. No content is lost; the record tells of an undo of
  something that was never done.

* **A hard stop behind another rule does not stop** (`hard_stops`).
  `runtime/README.md:42` says "`stop`: bounded retries exhausted or hard-stop
  policy/runtime invariants were hit". In two classes a rule that repairs precedes
  the rule that stops, and the first that matches decides: a policy excerpt that
  denies a destructive write in production *and* names a fallback for exceeded
  tokens is `repaired`, with `continuationAllowed`; so is a runtime excerpt that
  has a retryable timeout and the output of a node missing.

* **A link to a record that was not written** (`feedback_links`). `docs/spec/trace-ledger-v0.md:32` and
  `runtime/README.md:65` name `feedback_tensor.feedback_id` as the link from an inspection entry to a
  FeedbackTensor record. Where the append of that record failed the entry says `emitted: false` and has the
  id all the same (`index.ts:327` and `:457`), whereas `trace_ledger.trace_entry_id` is left out
  where the ledger was not written (`index.ts:451`). The repair loop does the same (`repair-loop.ts:473` and `:557`); its
  model has the same field. `LinksResolve` says what holds instead.

* **The accepted language is not the documented one** (`ls_documented`). `docs/spec/minimal-ls-grammar.md:14`,
  `:17` and `:20` have blanks between keyword, name and string; the lexer drops them and the parser asks for
  none (`lexer.ts:135`), so that `goal"a"` is a declaration. Line 25 lets an identifier be any word; a keyword is never
  an `Identifier` token (`lexer.ts:237`), so that `capability goal "a"` is none. `AcceptsItsLanguage` says
  what is accepted instead.

Noted while modelling, without a run:

* A mapping refers to a snapshot and scores the files that are there when it is made
  (`intent-mapping.ts:1004`), with nothing that compares the two, though `rfcs/002:59` wants
  "provenance references sufficient to reconstruct lineage and gating decisions". In `Pipeline` the
  candidates are those of `tree`, and the input is a snapshot that may be of another one.
* `rfcs/002:54` calls `artifact_id` a "unique ID for this artifact instance"; the run id is not part of
  what is digested (`safe-diff-plan.ts:642`, `workspace-snapshot.ts:448`), so the same call made for
  another run gives another artifact with the same id.
* `runtime/README.md:184` says "`verification_failed` when any required check fails"; a check that
  failed beside one without a result gives `verification_incomplete` (`patch-run.ts:799`).
* Verification results are handed to a patch run beside the plan, with nothing that binds them to
  that patch. Edits that a caller plans may be of other paths than the candidate that was mapped.
* Where the validation of an IR or a malformed gate throws, the inspection says that no gate was
  configured (`index.ts:499`), even if one was.
* `requireBenchmarkValidGain` enforces nothing when no report is handed in
  (`apply-rollback.ts:2037`); `MutationIsAuthorized` says what the code does.
* Directories made for created files stay after a rollback; snapshots are of
  files.
* Ignored paths that a caller gives replace the defaults, so that `.git` is scanned
  (`workspace-snapshot.ts:143`).

## 6. Plan

Done, most important behaviour first: the controller with its proofs and refinement; the repair
loop with its proofs; the gate and the runtime with its abstract specification and proofs; the pipeline of artifacts
up to the first gates of the controller with its proofs; the scan with its proofs; the compiler with its proofs. Every
safety property of the runs is a theorem.

What is left, in this order:

1. `Recovery`: `RuntimeRun` and `RepairLoop` composed as a caller uses them, run, repair, run again.
2. `ReliabilityGates`: aggregates against a reference definition.

## 7. Not modelled

Contract loaders (stateless validation of JSON documents), the field-by-field validation of
artifacts and their formatting, the text of feedback and trace entries, lexical scoring of intents (tokens, phrases and
weights in floating point, with no state), the reliability gates and the statistics of the benchmark harness (sequential
scripts that compare rates over a fixed corpus with thresholds), schemas, fixtures, build scripts. Symbolic
links are not modelled: `existsSync` follows them, and the trees of `Workspace` and `WorkspaceScan` have
none. A checkout changes its files one by one as edits, before or after the branch.
