---------------------------- MODULE ApplyRollback ----------------------------
(***************************************************************************)
(* createApplyRollbackRecordArtifact of runtime/src/apply-rollback.ts: the *)
(* controller that applies a PR bundle to a workspace, or rolls one back   *)
(* from the record of an earlier apply.                                    *)
(*                                                                         *)
(* A call reads the changed paths one by one, decides, and when it may and *)
(* is asked to execute, writes the paths one by one, reads them again and  *)
(* returns a record.  A call is one synchronous function, so two calls of  *)
(* one Node process never overlap; calls of two processes, editors and git *)
(* may come between any two file system calls, nothing locks the tree.     *)
(*                                                                         *)
(* Records are identified by the digest of their contents, and so are a    *)
(* set of values: the same call on the same state returns the same record. *)
(***************************************************************************)
EXTENDS ApplyGates, FiniteSets

CONSTANTS
  Dir, Above,      \* see Workspace
  UserContents,    \* what users write
  Bundles,         \* the PR bundles in play, normalised
  Options,         \* the options callers pass, but for the expected digest
  Callers,         \* processes that call the controller
  Torn,            \* what a write that fails half-way may leave
  MaxRecords       \* bound: no call starts once so many records exist

FS == INSTANCE Workspace

RollbackPlans ==
  [available : BOOLEAN, strategy : STRING \cup {Null}, digest : STRING \cup {Null}]

BundleType ==
  [id : STRING, edits : [Paths -> Operations], content : Contents,
   outcome : Verdicts,
   readiness : {v \in Verdicts : v.decision # "escalate"},
   checksComplete : BOOLEAN, evidenceComplete : BOOLEAN, allPassed : BOOLEAN,
   rollback : RollbackPlans]

OptionType ==
  [execute : BOOLEAN, allowAction : BOOLEAN, capable : BOOLEAN,
   approvalRequired : {"default", "yes", "no"}, approved : BOOLEAN,
   blocked : SUBSET Paths, escalated : SUBSET Paths, requireGain : BOOLEAN,
   benchmark : [present : BOOLEAN, floorPreserved : BOOLEAN, validGain : BOOLEAN]]

ASSUME TreeAssumption == FS!AboveAssumption
ASSUME InputsAssumption ==
  /\ Bundles \subseteq BundleType
  /\ Options \subseteq OptionType
  /\ UserContents \subseteq Contents
  /\ Torn \in Contents
  /\ Dir \notin Entry \cup {Null}
ASSUME BoundAssumption == MaxRecords \in Nat

-----------------------------------------------------------------------------
(* Records.                                                                *)

\* Both kinds of record; an apply record has no prior (an apply only notes
\* the id of a previous record it is given), a rollback record has one.
RecordsWithPrior(priors) ==
  [action : Actions, bundle : STRING, verdict : Verdicts, changed : SUBSET Paths,
   before : Snapshots, after : Snapshots, executed : BOOLEAN, restored : BOOLEAN,
   rollback : RollbackPlans, prior : priors]

ApplyRecords    == {r \in RecordsWithPrior({Null}) : r.action = "apply"}
RollbackRecords == {r \in RecordsWithPrior(ApplyRecords) : r.action = "rollback"}

\* normalizePreviousApplyRecord: what a rollback accepts.  Whether the apply
\* was executed or a dry run is not looked at.
ValidPrevious(r) == r.action = "apply" /\ r.verdict.decision = "continue"

-----------------------------------------------------------------------------
VARIABLES
  ws,        \* the workspace tree
  call,      \* what each caller is doing
  records    \* the records returned so far

vars == <<ws, call, records>>

Phases == {"capture", "write", "recapture"}

Calls ==
  [phase : Phases, action : Actions, bundle : Bundles, opts : Options,
   expected : Snapshots \cup {Null}, prior : ApplyRecords \cup {Null},
   todo : SUBSET Paths, before : Snapshots, after : Snapshots, verdict : Verdicts]

Idle == Null
ASSUME IdleAssumption == Idle \notin Calls
Running(c) == call[c] # Idle

TypeOK ==
  /\ ws \in FS!Workspaces
  /\ call \in [Callers -> Calls \cup {Idle}]
  /\ records \subseteq ApplyRecords \cup RollbackRecords

Init ==
  /\ ws \in {w \in [Paths -> UserContents \cup {Absent, Dir}] : FS!WellFormed(w)}
  /\ call = [c \in Callers |-> Idle]
  /\ records = {}

-----------------------------------------------------------------------------
(* The steps of a call.                                                    *)

\* The path the loop is at: the least one left, edits and files are sorted.
IsNext(p, todo) == p \in todo /\ \A q \in todo : p <= q

Becomes(c, k) == call' = [call EXCEPT ![c] = k]

\* Options are normalised and the previous record of a rollback validated; a
\* call that throws there has no effect and is left out.
Begin(c, action, b, prior, o, expected) ==
  /\ ~Running(c)
  /\ Cardinality(records) < MaxRecords
  /\ IF action = "rollback" THEN prior # Null /\ ValidPrevious(prior)
     ELSE prior = Null
  /\ Becomes(c, [phase |-> "capture", action |-> action, bundle |-> b, opts |-> o,
                 expected |-> expected, prior |-> prior, todo |-> Changed(b),
                 before |-> EmptySnapshot, after |-> EmptySnapshot,
                 verdict |-> Pass])
  /\ UNCHANGED <<ws, records>>

\* captureWorkspaceStateSnapshot, one path: before the decision and again
\* after the writes.
Capture(c) ==
  /\ Running(c) /\ call[c].phase \in {"capture", "recapture"}
  /\ \E p \in Paths :
       /\ IsNext(p, call[c].todo)
       /\ FS!Readable(ws, p)
       /\ Becomes(c, IF call[c].phase = "capture"
                     THEN [call[c] EXCEPT !.todo = @ \ {p}, !.before[p] = ws[p]]
                     ELSE [call[c] EXCEPT !.todo = @ \ {p}, !.after[p] = ws[p]])
  /\ UNCHANGED <<ws, records>>

\* The record a call returns.
RecordOf(k, verdict, executed, after) ==
  [action |-> k.action, bundle |-> k.bundle.id, verdict |-> verdict,
   changed |-> Changed(k.bundle), before |-> k.before, after |-> after,
   executed |-> executed,
   restored |-> k.action = "rollback" /\ executed /\ after = k.prior.before,
   rollback |-> IF k.action = "apply" THEN k.bundle.rollback
                ELSE [available |-> k.prior.rollback.available,
                      strategy  |-> IF k.prior.rollback.strategy # Null
                                    THEN k.prior.rollback.strategy
                                    ELSE k.bundle.rollback.strategy,
                      digest    |-> IF k.prior.rollback.digest # Null
                                    THEN k.prior.rollback.digest
                                    ELSE k.bundle.rollback.digest],
   prior |-> k.prior]

\* What the write loop is to leave at path p, and the paths it goes through.
Target(k, p) ==
  IF k.action = "rollback" THEN k.prior.before[p]
  ELSE IF k.bundle.edits[p] = "delete" THEN Absent ELSE k.bundle.content

\* A plausible bug: files the apply created are not removed.
WriteSetOfFiles(k) ==
  IF k.action = "rollback" THEN {p \in Paths : k.prior.before[p] \in Contents}
  ELSE Changed(k.bundle)

WriteSet(k) == IF k.action = "rollback" THEN Covered(k.prior.before) ELSE Changed(k.bundle)

\* The decision, once everything is read: go on to write, or return a record.
Conclude(c) ==
  /\ Running(c) /\ call[c].phase = "capture" /\ call[c].todo = {}
  /\ LET k == call[c]
         v == Decide(k.action, k.bundle, k.prior, k.opts, k.expected, k.before)
     IN IF v.decision = "continue" /\ k.opts.execute
        THEN /\ Becomes(c, [k EXCEPT !.phase = "write", !.todo = WriteSet(k),
                                     !.verdict = v])
             /\ UNCHANGED <<ws, records>>
        ELSE /\ Becomes(c, Idle)
             /\ records' = records \cup {RecordOf(k, v, FALSE, k.before)}
             /\ UNCHANGED ws

\* applyEditsToWorkspace and restoreWorkspaceStateSnapshot, one path.
Write(c) ==
  /\ Running(c) /\ call[c].phase = "write"
  /\ \E p \in Paths :
       /\ IsNext(p, call[c].todo)
       /\ FS!CanPut(ws, p, Target(call[c], p))
       /\ ws' = FS!Put(ws, p, Target(call[c], p))
       /\ Becomes(c, [call[c] EXCEPT !.todo = @ \ {p}])
  /\ UNCHANGED records

Written(c) ==
  /\ Running(c) /\ call[c].phase = "write" /\ call[c].todo = {}
  /\ Becomes(c, [call[c] EXCEPT !.phase = "recapture",
                                !.todo = Changed(call[c].bundle)])
  /\ UNCHANGED <<ws, records>>

\* A plausible bug: the state a rollback leaves is not compared.
ReturnUnchecked(c) ==
  /\ Running(c) /\ call[c].phase = "recapture" /\ call[c].todo = {}
  /\ records' = records \cup {RecordOf(call[c], call[c].verdict, TRUE, call[c].after)}
  /\ Becomes(c, Idle)
  /\ UNCHANGED ws

\* The state after is known: a rollback that did not bring the prior state
\* back is turned into a stop, an apply is not compared with anything.
Return(c) ==
  /\ Running(c) /\ call[c].phase = "recapture" /\ call[c].todo = {}
  /\ LET k == call[c]
         v == IF k.action = "rollback" /\ k.after # k.prior.before
              THEN Verdict("stop", "conflict_detected") ELSE k.verdict
     IN records' = records \cup {RecordOf(k, v, TRUE, k.after)}
  /\ Becomes(c, Idle)
  /\ UNCHANGED ws

\* A plausible bug: a path that cannot be read is waited for.
ThrowsOnWrite(k) ==
  k.phase = "write" /\ \E p \in Paths : IsNext(p, k.todo) /\ ~FS!CanPut(ws, p, Target(k, p))

\* EXECUTION_FAILED: the path to read is a directory, or the path to write
\* cannot be written.  What was written stays, and no record is returned.
Throws(k) ==
  \E p \in Paths :
    /\ IsNext(p, k.todo)
    /\ IF k.phase = "write" THEN ~FS!CanPut(ws, p, Target(k, p))
       ELSE ~FS!Readable(ws, p)
Throw(c) ==
  /\ Running(c) /\ Throws(call[c])
  /\ Becomes(c, Idle)
  /\ UNCHANGED <<ws, records>>

Step(c) ==
  \/ Capture(c) \/ Conclude(c) \/ Write(c) \/ Written(c) \/ Return(c) \/ Throw(c)

-----------------------------------------------------------------------------
(* The world around the controller.                                        *)

\* The process dies or an I/O error is thrown: a write under way may have
\* left the old entry, the directories it made, or a torn file.
Fail(c) ==
  /\ Running(c)
  /\ \/ UNCHANGED ws
     \/ /\ call[c].phase = "write"
        /\ \E p \in Paths :
             /\ IsNext(p, call[c].todo) /\ Target(call[c], p) # Absent
             /\ FS!CanPut(ws, p, Torn)
             /\ ws' \in {FS!WithParents(ws, p), FS!Put(ws, p, Torn)}
  /\ Becomes(c, Idle)
  /\ UNCHANGED records

\* A user, an editor or git writes or removes a file, or removes an empty
\* directory.
Edit(p, e) ==
  /\ FS!CanPut(ws, p, e)
  /\ ws' = FS!Put(ws, p, e)
  /\ UNCHANGED <<call, records>>

RemoveDirectory(p) ==
  /\ ws[p] = Dir
  /\ \A q \in Paths : p \in Above[q] => ws[q] = Absent
  /\ ws' = [ws EXCEPT ![p] = Absent]
  /\ UNCHANGED <<call, records>>

Users ==
  \/ \E p \in Paths, e \in UserContents \cup {Absent} : Edit(p, e)
  \/ \E p \in Paths : RemoveDirectory(p)

\* A caller passes a record it has, and may demand the state of a record.
Begins(c) ==
  \E action \in Actions, b \in Bundles, o \in Options,
     prior \in records \cup {Null}, expected \in {r.before : r \in records} \cup {Null} :
    Begin(c, action, b, prior, o, expected)

-----------------------------------------------------------------------------
Next ==
  \/ \E c \in Callers : Begins(c) \/ Step(c) \/ Fail(c)
  \/ Users

Spec == Init /\ [][Next]_vars /\ \A c \in Callers : WF_vars(Step(c))

\* The setting the controller is written for: one process, in which calls
\* cannot overlap, no one else at work during a call, no I/O errors.
AllIdle == \A c \in Callers : ~Running(c)

QuietNext ==
  \/ AllIdle /\ \E c \in Callers : Begins(c)
  \/ \E c \in Callers : Step(c)
  \/ AllIdle /\ Users

QuietSpec == Init /\ [][QuietNext]_vars /\ \A c \in Callers : WF_vars(Step(c))

\* One process alone in its workspace, applying every bundle at most once.
Applied(b) ==
  \E r \in records : r.action = "apply" /\ r.executed /\ r.bundle = b.id

OnceNext ==
  \/ /\ AllIdle /\ \E c \in Callers : Begins(c)
     /\ \A c \in Callers : call'[c] # Idle =>
          ~(call'[c].action = "apply" /\ Applied(call'[c].bundle))
  \/ \E c \in Callers : Step(c)

OnceSpec == Init /\ [][OnceNext]_vars

-----------------------------------------------------------------------------
(* Properties of Spec: with other processes, users and failures at work.   *)

\* The RFC-002 table of checks before apply and rollback, for call k.
Authorized(k) ==
  /\ k.bundle.outcome.decision = "continue" /\ k.bundle.readiness.decision = "continue"
  /\ k.bundle.checksComplete /\ k.bundle.evidenceComplete /\ k.bundle.allPassed
  /\ k.opts.execute /\ k.opts.allowAction /\ k.opts.capable
  /\ k.opts.approvalRequired = "yes" => k.opts.approved
  /\ Changed(k.bundle) \cap (k.opts.blocked \cup k.opts.escalated) = {}
  /\ k.action = "apply" =>
       /\ k.bundle.rollback.available
       /\ k.opts.approvalRequired = "default" => k.opts.approved
       /\ k.expected \in {Null, k.before}
       /\ OperationsFit(k.bundle, k.before)
       /\ k.opts.requireGain /\ k.opts.benchmark.present =>
            k.opts.benchmark.floorPreserved /\ k.opts.benchmark.validGain
  /\ k.action = "rollback" =>
       /\ k.prior.verdict.decision = "continue"
       /\ k.prior.bundle = k.bundle.id
       /\ k.prior.rollback.available
       /\ k.prior.changed = Changed(k.bundle)
       /\ k.before = k.prior.after

\* No call gets as far as touching a file unless every check that RFC-002
\* (Required Checks Before Continuation and Apply) lists for its action holds,
\* whichever gate comes first in the chain and whatever the others say.
MutationIsAuthorized ==
  \A c \in Callers :
    Running(c) /\ call[c].phase \in {"write", "recapture"} => Authorized(call[c])

\* Whatever came between its file system calls, a rollback that says it
\* continued has seen the prior state on every changed path after its writes;
\* one that has not seen it says stop.
RestoredIsPrior ==
  \A r \in records :
    r.action = "rollback" /\ r.executed =>
      /\ r.restored <=> r.verdict.decision = "continue"
      /\ r.restored => \A p \in r.changed : r.after[p] = r.prior.before[p]

\* Every call ends, with a record or an error: neither other processes nor
\* users can keep the loops of a call from running out of paths.
CallsEnd == \A c \in Callers : Running(c) ~> ~Running(c)

-----------------------------------------------------------------------------
(* Properties of QuietSpec.                                                *)

\* A write loop replaces, path by path, exactly what the call captured before
\* it decided: the snapshot in the record is all that is lost.  Outside the
\* captured paths it makes directories where there was nothing, no more.
OverwritesOnlyCaptured ==
  [][\A c \in Callers, p \in Paths :
       Running(c) /\ call[c].phase = "write" /\ ws'[p] # ws[p]
         => \/ ws[p] = call[c].before[p]
            \/ ws[p] = Absent /\ ws'[p] = Dir]_vars

\* What an executed call reads back is what its loop was to write, on every
\* path, for applies too, whose post-state the code does not check.
ReadsBackTargets ==
  \A c \in Callers :
    Running(c) /\ call[c].phase = "recapture" =>
      \A p \in Covered(call[c].after) : call[c].after[p] = Target(call[c], p)

\* Two edited paths of which one lies below the other, or a written path
\* below a file.
Clash(k) ==
  \E p \in WriteSet(k) : \E q \in Above[p] : q \in WriteSet(k) \/ ws[q] \in Contents

\* A call that has begun to write returns a record, unless paths clash: only
\* then can it throw and leave the workspace changed with nothing to roll it
\* back from.
AllOrNothing ==
  [][\A c \in Callers :
       Running(c) /\ call[c].phase \in {"write", "recapture"} /\ Throw(c)
         => Clash(call[c])]_vars

\* runtime/README.md: "Rollback requires a prior successful apply record".  An
\* apply that was a dry run applied nothing, so a rollback that executes has
\* an executed apply to undo.
RollbackUndoesAnApply ==
  \A r \in records : r.action = "rollback" /\ r.executed => r.prior.executed

-----------------------------------------------------------------------------
(* A property of OnceSpec.                                                 *)

AdmitsRollback(r) ==
  /\ r.action = "apply" /\ r.executed
  /\ \A p \in r.changed : ws[p] = r.after[p]

\* Records are all there is to go back with, and a rollback is refused unless
\* the after-state of its record is there.  As long as no bundle deletes and
\* every bundle is applied at most once, refusing is safe: where the content
\* of a bundle is left, some record still fits, in whatever order bundles
\* that share paths were applied and rolled back.
NeverStranded ==
  AllIdle /\ (\E p \in Paths, b \in Bundles : ws[p] = b.content)
    => \E r \in records : AdmitsRollback(r)

-----------------------------------------------------------------------------
(* ApplyRollback implements UndoLog when it runs undisturbed.              *)

FileView(w) == [p \in Paths |-> IF w[p] = Dir THEN Absent ELSE w[p]]

\* While a call writes, nothing has happened yet: the paths it has written
\* are still seen as it captured them.
Writing == {c \in Callers : Running(c) /\ call[c].phase \in {"write", "recapture"}}
VisibleFiles ==
  [p \in Paths |->
     IF \E c \in Writing : p \in WriteSet(call[c])
     THEN call[CHOOSE c \in Writing : p \in WriteSet(call[c])].before[p]
     ELSE FileView(ws)[p]]

PlanOf(b) ==
  [p \in Paths |-> CASE b.edits[p] = "none"   -> Null
                     [] b.edits[p] = "delete" -> Absent
                     [] OTHER                 -> b.content]

\* The entries are the apply records a rollback accepts.
EntryOf(r) == [before |-> r.before, after |-> r.after]
Entries    == {EntryOf(r) : r \in {r \in records : ValidPrevious(r)}}
Undone     == {EntryOf(r.prior) : r \in {r \in records : r.restored}}

Undoable == INSTANCE UndoLog
  WITH files <- VisibleFiles, log <- Entries, undone <- Undone,
       Values <- Entry, Plans <- {PlanOf(b) : b \in Bundles}

\* Undisturbed, and where no edited path lies below another, the controller
\* changes files by whole bundles, keeps an entry of every apply and undoes
\* whole entries, only where they fit.
ImplementsUndoLog == Undoable!Spec
=============================================================================
