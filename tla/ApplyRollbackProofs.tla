------------------------- MODULE ApplyRollbackProofs -------------------------
(* Theorems about ApplyRollback, for every value of its constants.         *)
EXTENDS ApplyRollback, TLAPS

-----------------------------------------------------------------------------
(* The gates: a verdict is Pass or does not let the call continue.         *)

GateVerdicts == {v \in Verdicts : v = Pass \/ v.decision # "continue"}

\* A chain of two gates is a gate, and passes only where both do.
LEMMA FirstThatSpeaks ==
  ASSUME NEW v \in GateVerdicts, NEW w \in GateVerdicts
  PROVE  /\ (v ?? w) \in GateVerdicts
         /\ (v ?? w) = Pass => v = Pass /\ w = Pass
  BY DEF ??, GateVerdicts

\* Only Pass continues.
LEMMA OnlyPassContinues ==
  ASSUME NEW v \in GateVerdicts, v.decision = "continue"
  PROVE  v = Pass
  BY DEF GateVerdicts

\* A gate's verdicts are Pass and those that escalate or stop.
LEMMA PassIsAVerdict == Pass \in GateVerdicts
  BY DEF GateVerdicts, Verdicts, Verdict, Pass, Decisions, Reasons

\* What stops or escalates is a gate's verdict.
LEMMA BlockedIsAVerdict ==
  ASSUME NEW d \in {"escalate", "stop"}, NEW r \in Reasons
  PROVE  /\ Verdict(d, r) \in GateVerdicts
         /\ Verdict(d, r) # Pass
  BY DEF GateVerdicts, Verdicts, Verdict, Pass, Decisions, Reasons

\* Where decideFromUpstream lets pass, outcome and readiness of the bundle continue.
LEMMA UpstreamGatePasses ==
  ASSUME NEW b \in BundleType
  PROVE  /\ UpstreamGate(b) \in GateVerdicts
         /\ UpstreamGate(b) = Pass =>
              b.outcome.decision = "continue" /\ b.readiness.decision = "continue"
  <1>1. /\ b.outcome.decision \in Decisions /\ b.outcome.reason \in Reasons
        /\ b.readiness.decision \in Decisions /\ b.readiness.reason \in Reasons
    BY DEF BundleType, Verdicts
  <1>2. QED
    BY <1>1, BlockedIsAVerdict, PassIsAVerdict DEF UpstreamGate, Decisions

\* Where decideFromVerification lets pass, checks and evidence are complete and passed.
LEMMA VerificationGatePasses ==
  ASSUME NEW b \in BundleType
  PROVE  /\ VerificationGate(b) \in GateVerdicts
         /\ VerificationGate(b) = Pass =>
              b.checksComplete /\ b.evidenceComplete /\ b.allPassed
  BY BlockedIsAVerdict, PassIsAVerdict DEF VerificationGate, Reasons

\* Where the rollback-availability gate lets an apply pass, the bundle has a rollback.
LEMMA RollbackAvailabilityGatePasses ==
  ASSUME NEW action \in Actions, NEW b \in BundleType
  PROVE  /\ RollbackAvailabilityGate(action, b) \in GateVerdicts
         /\ RollbackAvailabilityGate(action, b) = Pass =>
              (action = "apply" => b.rollback.available)
  BY BlockedIsAVerdict, PassIsAVerdict DEF RollbackAvailabilityGate, Reasons

\* Where the rollback-inputs gate lets pass, the prior record is of this bundle.
LEMMA RollbackInputsGatePasses ==
  ASSUME NEW b \in BundleType, NEW prior
  PROVE  /\ RollbackInputsGate(b, prior) \in GateVerdicts
         /\ RollbackInputsGate(b, prior) = Pass =>
              prior.bundle = b.id /\ prior.rollback.available
  BY BlockedIsAVerdict, PassIsAVerdict DEF RollbackInputsGate, Reasons

\* Where the benchmark gate lets an apply pass, a report that was asked for shows the gain.
LEMMA BenchmarkGatePasses ==
  ASSUME NEW action \in Actions, NEW o \in OptionType
  PROVE  /\ BenchmarkGate(action, o) \in GateVerdicts
         /\ BenchmarkGate(action, o) = Pass =>
              (action = "apply" /\ o.requireGain /\ o.benchmark.present =>
                 o.benchmark.floorPreserved /\ o.benchmark.validGain)
  BY BlockedIsAVerdict, PassIsAVerdict DEF BenchmarkGate, Reasons

\* Where the policy gate lets pass, the action is allowed, capable and approved.
LEMMA PolicyGatePasses ==
  ASSUME NEW action \in Actions, NEW b \in BundleType, NEW o \in OptionType
  PROVE  /\ PolicyGate(action, b, o) \in GateVerdicts
         /\ PolicyGate(action, b, o) = Pass =>
              /\ o.allowAction /\ o.capable
              /\ ApprovalRequired(action, o) => o.approved
              /\ Changed(b) \cap (o.blocked \cup o.escalated) = {}
  BY BlockedIsAVerdict, PassIsAVerdict DEF PolicyGate, Reasons

\* Where the precondition gate lets pass, the tree is what the caller and the prior
\* record expect.
LEMMA PreconditionGatePasses ==
  ASSUME NEW action, NEW b, NEW prior, NEW expected, NEW before
  PROVE  /\ PreconditionGate(action, b, prior, expected, before) \in GateVerdicts
         /\ PreconditionGate(action, b, prior, expected, before) = Pass =>
              Preconditions(action, b, prior, expected, before)
  BY BlockedIsAVerdict, PassIsAVerdict DEF PreconditionGate, Reasons

\* A call that the chain lets continue was passed by every gate of it.
LEMMA DecideContinues ==
  ASSUME NEW action \in Actions, NEW b \in BundleType, NEW prior,
         NEW o \in OptionType, NEW expected, NEW before
  PROVE  /\ Decide(action, b, prior, o, expected, before) \in Verdicts
         /\ Decide(action, b, prior, o, expected, before).decision = "continue" =>
              /\ UpstreamGate(b) = Pass
              /\ VerificationGate(b) = Pass
              /\ RollbackAvailabilityGate(action, b) = Pass
              /\ action = "rollback" => RollbackInputsGate(b, prior) = Pass
              /\ BenchmarkGate(action, o) = Pass
              /\ PolicyGate(action, b, o) = Pass
              /\ PreconditionGate(action, b, prior, expected, before) = Pass
  <1> DEFINE g1 == UpstreamGate(b)
             g2 == VerificationGate(b)
             g3 == RollbackAvailabilityGate(action, b)
             g4 == IF action = "rollback" THEN RollbackInputsGate(b, prior) ELSE Pass
             g5 == BenchmarkGate(action, o)
             g6 == PolicyGate(action, b, o)
             g7 == PreconditionGate(action, b, prior, expected, before)
             D  == Decide(action, b, prior, o, expected, before)
  <1>1. /\ g1 \in GateVerdicts /\ g2 \in GateVerdicts /\ g3 \in GateVerdicts
        /\ g5 \in GateVerdicts /\ g6 \in GateVerdicts /\ g7 \in GateVerdicts
    BY UpstreamGatePasses, VerificationGatePasses, RollbackAvailabilityGatePasses,
       BenchmarkGatePasses, PolicyGatePasses, PreconditionGatePasses
  <1>2. g4 \in GateVerdicts
    BY RollbackInputsGatePasses, PassIsAVerdict
  <1>3. D = g1 ?? g2 ?? g3 ?? g4 ?? g5 ?? g6 ?? g7
    BY DEF Decide
  <1> HIDE DEF g1, g2, g3, g4, g5, g6, g7, D
  <1>4. D \in GateVerdicts
    <2>1. g1 ?? g2 \in GateVerdicts  BY <1>1, FirstThatSpeaks
    <2>2. g1 ?? g2 ?? g3 \in GateVerdicts  BY <2>1, <1>1, FirstThatSpeaks
    <2>3. g1 ?? g2 ?? g3 ?? g4 \in GateVerdicts  BY <2>2, <1>2, FirstThatSpeaks
    <2>4. g1 ?? g2 ?? g3 ?? g4 ?? g5 \in GateVerdicts  BY <2>3, <1>1, FirstThatSpeaks
    <2>5. g1 ?? g2 ?? g3 ?? g4 ?? g5 ?? g6 \in GateVerdicts
      BY <2>4, <1>1, FirstThatSpeaks
    <2>6. QED  BY <2>5, <1>1, <1>3, FirstThatSpeaks
  <1>5. ASSUME D = Pass
        PROVE  /\ g1 = Pass /\ g2 = Pass /\ g3 = Pass /\ g4 = Pass
               /\ g5 = Pass /\ g6 = Pass /\ g7 = Pass
    BY <1>3, <1>5 DEF ??
  <1>6. D.decision = "continue" => D = Pass
    BY <1>4, OnlyPassContinues
  <1>7. D \in Verdicts
    BY <1>4 DEF GateVerdicts
  <1>8. QED
    BY <1>5, <1>6, <1>7 DEF g1, g2, g3, g4, g5, g6, g7, D

-----------------------------------------------------------------------------
(* The inductive invariant.                                                *)

\* What holds of a call under way, besides its type: an apply has no prior
\* record, a rollback one it accepts, and a call that writes was let through
\* and writes no path it has no entry for.
CallOK(k) ==
  /\ k.action = "apply" => k.prior = Null
  /\ k.action = "rollback" => k.prior \in ApplyRecords /\ ValidPrevious(k.prior)
  /\ k.phase \in {"write", "recapture"} =>
       k.verdict.decision = "continue" /\ Authorized(k)
  /\ k.phase = "write" => k.todo \subseteq WriteSet(k)

CallsOK == \A c \in Callers : Running(c) => CallOK(call[c])

IInv == TypeOK /\ CallsOK /\ RestoredIsPrior

\* The chain lets through exactly what RFC-002 lets through.
LEMMA ContinuedIsAuthorized ==
  ASSUME NEW k \in Calls, CallOK(k), k.opts.execute,
         Decide(k.action, k.bundle, k.prior, k.opts, k.expected, k.before).decision
           = "continue"
  PROVE  Authorized(k)
  <1>1. k.action \in Actions /\ k.bundle \in BundleType /\ k.opts \in OptionType
    BY InputsAssumption DEF Calls
  <1>2. /\ UpstreamGate(k.bundle) = Pass
        /\ VerificationGate(k.bundle) = Pass
        /\ RollbackAvailabilityGate(k.action, k.bundle) = Pass
        /\ k.action = "rollback" => RollbackInputsGate(k.bundle, k.prior) = Pass
        /\ BenchmarkGate(k.action, k.opts) = Pass
        /\ PolicyGate(k.action, k.bundle, k.opts) = Pass
        /\ PreconditionGate(k.action, k.bundle, k.prior, k.expected, k.before) = Pass
    BY <1>1, DecideContinues
  <1>3. /\ k.bundle.outcome.decision = "continue"
        /\ k.bundle.readiness.decision = "continue"
        /\ k.bundle.checksComplete /\ k.bundle.evidenceComplete /\ k.bundle.allPassed
    BY <1>1, <1>2, UpstreamGatePasses, VerificationGatePasses
  <1>4. /\ k.opts.allowAction /\ k.opts.capable
        /\ k.opts.approvalRequired = "yes" => k.opts.approved
        /\ k.opts.approvalRequired = "default" /\ k.action = "apply" => k.opts.approved
        /\ Changed(k.bundle) \cap (k.opts.blocked \cup k.opts.escalated) = {}
    BY <1>1, <1>2, PolicyGatePasses DEF ApprovalRequired
  <1>5. Preconditions(k.action, k.bundle, k.prior, k.expected, k.before)
    BY <1>2, PreconditionGatePasses
  <1>6. k.action = "apply" =>
          /\ k.bundle.rollback.available
          /\ k.expected \in {Null, k.before}
          /\ OperationsFit(k.bundle, k.before)
          /\ k.opts.requireGain /\ k.opts.benchmark.present =>
               k.opts.benchmark.floorPreserved /\ k.opts.benchmark.validGain
    BY <1>1, <1>2, <1>5, RollbackAvailabilityGatePasses, BenchmarkGatePasses
    DEF Preconditions, ApplyPreconditions
  <1>7. k.action = "rollback" =>
          /\ k.prior.verdict.decision = "continue"
          /\ k.prior.bundle = k.bundle.id
          /\ k.prior.rollback.available
          /\ k.prior.changed = Changed(k.bundle)
          /\ k.before = k.prior.after
    BY <1>1, <1>2, <1>5, RollbackInputsGatePasses
    DEF Preconditions, RollbackPreconditions, CallOK, ValidPrevious
  <1>8. QED
    BY <1>3, <1>4, <1>6, <1>7 DEF Authorized

\* A record is one of the two kinds, and what it says of a rollback it has
\* compared.
LEMMA RecordIsOne ==
  ASSUME NEW k \in Calls, CallOK(k), NEW v \in Verdicts, NEW e \in BOOLEAN,
         NEW after \in Snapshots
  PROVE  /\ RecordOf(k, v, e, after) \in ApplyRecords \cup RollbackRecords
         /\ RecordOf(k, v, e, after).restored <=>
              k.action = "rollback" /\ e /\ after = k.prior.before
  <1> DEFINE r == RecordOf(k, v, e, after)
  <1>1. k.action \in Actions /\ k.bundle \in BundleType /\ k.before \in Snapshots
    BY InputsAssumption DEF Calls
  <1>2. Changed(k.bundle) \in SUBSET Paths /\ k.bundle.id \in STRING
        /\ k.bundle.rollback \in RollbackPlans
    BY <1>1 DEF Changed, BundleType
  <1>3. CASE k.action = "apply"
    <2>1. k.prior = Null  BY <1>3 DEF CallOK
    <2>2. r \in RecordsWithPrior({Null})
      BY <1>1, <1>2, <1>3, <2>1 DEF RecordOf, RecordsWithPrior
    <2>3. QED  BY <1>3, <2>2 DEF RecordOf, ApplyRecords
  <1>4. CASE k.action = "rollback"
    <2>1. k.prior \in ApplyRecords  BY <1>4 DEF CallOK
    <2>2. k.prior.rollback \in RollbackPlans  BY <2>1 DEF ApplyRecords, RecordsWithPrior
    <2>3. r.rollback \in RollbackPlans  BY <1>2, <1>4, <2>2 DEF RecordOf, RollbackPlans
    <2>4. r \in RecordsWithPrior(ApplyRecords)
      BY <1>1, <1>2, <1>4, <2>1, <2>3 DEF RecordOf, RecordsWithPrior
    <2>5. QED  BY <1>4, <2>4 DEF RecordOf, RollbackRecords
  <1>5. QED
    BY <1>1, <1>3, <1>4 DEF Actions

\* A caller goes on to a call that is as it should be, or to none.
LEMMA BecomesOne ==
  ASSUME TypeOK, CallsOK, NEW c \in Callers, NEW k \in Calls \cup {Idle},
         k # Idle => CallOK(k), Becomes(c, k)
  PROVE  call' \in [Callers -> Calls \cup {Idle}] /\ CallsOK'
  <1>1. call' \in [Callers -> Calls \cup {Idle}]
    BY DEF TypeOK, Becomes
  <1>2. ASSUME NEW d \in Callers, Running(d)'  PROVE CallOK(call'[d])
    BY <1>2 DEF TypeOK, CallsOK, Becomes, Running
  <1>3. CallsOK'
    BY <1>2 DEF CallsOK, Running
  <1>4. QED
    BY <1>1, <1>3

\* Whatever is put at a path, a workspace stays one.
LEMMA PutKeepsWorkspace ==
  ASSUME NEW w \in FS!Workspaces, NEW p \in Paths, NEW e \in Entry
  PROVE  FS!WithParents(w, p) \in FS!Workspaces /\ FS!Put(w, p, e) \in FS!Workspaces
  <1>1. FS!WithParents(w, p) \in FS!Workspaces
    BY DEF FS!WithParents, FS!Workspaces, FS!Node
  <1>2. QED
    BY <1>1 DEF FS!Put, FS!Workspaces, FS!Node, Entry

\* The invariant holds at first: no call and no record.
LEMMA InitIInv == Init => IInv
  BY InputsAssumption DEF Init, IInv, TypeOK, CallsOK, RestoredIsPrior, Running, Idle,
     FS!Workspaces, FS!Node

\* Normalising the inputs of a call keeps the invariant.
LEMMA BeginKeepsIInv ==
  ASSUME IInv, NEW c \in Callers, Begins(c)
  PROVE  IInv'
  <1>1. PICK action \in Actions, b \in Bundles, o \in Options,
             prior \in records \cup {Null},
             expected \in {r.before : r \in records} \cup {Null} :
               Begin(c, action, b, prior, o, expected)
    BY DEF Begins
  <1> DEFINE k == [phase |-> "capture", action |-> action, bundle |-> b, opts |-> o,
                   expected |-> expected, prior |-> prior, todo |-> Changed(b),
                   before |-> EmptySnapshot, after |-> EmptySnapshot,
                   verdict |-> Pass]
  <1>2. expected \in Snapshots \cup {Null}
    BY DEF IInv, TypeOK, ApplyRecords, RollbackRecords, RecordsWithPrior
  <1>3. /\ action = "apply" => prior = Null
        /\ action = "rollback" => prior \in ApplyRecords /\ ValidPrevious(prior)
    BY <1>1 DEF Begin, IInv, TypeOK, ValidPrevious, ApplyRecords, RollbackRecords,
       RecordsWithPrior
  <1>4. prior \in ApplyRecords \cup {Null}
    BY <1>3 DEF Actions
  <1>5. EmptySnapshot \in Snapshots /\ Changed(b) \in SUBSET Paths /\ Pass \in Verdicts
    BY PassIsAVerdict DEF EmptySnapshot, Snapshots, Changed, GateVerdicts
  <1>6. k \in Calls
    BY <1>2, <1>4, <1>5 DEF Calls, Phases
  <1>7. CallOK(k)
    BY <1>3 DEF CallOK
  <1>8. Becomes(c, k) /\ UNCHANGED <<ws, records>>
    BY <1>1 DEF Begin
  <1>9. QED
    BY <1>6, <1>7, <1>8, BecomesOne DEF IInv, TypeOK, RestoredIsPrior

\* Reading one path, before the decision or after the writes, keeps the invariant.
LEMMA CaptureKeepsIInv ==
  ASSUME IInv, NEW c \in Callers, Capture(c)
  PROVE  IInv'
  <1>1. PICK p \in Paths :
          /\ FS!Readable(ws, p)
          /\ Becomes(c, IF call[c].phase = "capture"
                        THEN [call[c] EXCEPT !.todo = @ \ {p}, !.before[p] = ws[p]]
                        ELSE [call[c] EXCEPT !.todo = @ \ {p}, !.after[p] = ws[p]])
    BY DEF Capture
  <1> DEFINE k == call[c]
             b == [k EXCEPT !.todo = @ \ {p}, !.before[p] = ws[p]]
             a == [k EXCEPT !.todo = @ \ {p}, !.after[p] = ws[p]]
  <1>2. k \in Calls /\ CallOK(k) /\ k.phase \in {"capture", "recapture"}
    BY DEF Capture, IInv, TypeOK, CallsOK, Running
  <1>3. ws[p] \in Entry
    BY <1>1 DEF IInv, TypeOK, FS!Readable, FS!Workspaces, FS!Node, Entry
  <1>4. UNCHANGED <<ws, records>>
    BY DEF Capture
  <1>5. CASE k.phase = "capture"
    <2>1. b \in Calls
      BY <1>2, <1>3 DEF Calls, Snapshots
    <2>2. CallOK(b)
      BY <1>2, <1>5 DEF Calls, CallOK
    <2>3. Becomes(c, b)
      BY <1>1, <1>5
    <2>4. QED
      BY <1>4, <2>1, <2>2, <2>3, BecomesOne DEF IInv, TypeOK, RestoredIsPrior
  <1>6. CASE k.phase = "recapture"
    <2>1. a \in Calls
      BY <1>2, <1>3 DEF Calls, Snapshots
    <2>2. CallOK(a)
      BY <1>2, <1>6 DEF Calls, CallOK, Authorized
    <2>3. Becomes(c, a)
      BY <1>1, <1>6
    <2>4. QED
      BY <1>4, <2>1, <2>2, <2>3, BecomesOne DEF IInv, TypeOK, RestoredIsPrior
  <1>7. QED
    BY <1>2, <1>5, <1>6

\* Deciding keeps the invariant: a call that goes on to write is authorized.
LEMMA ConcludeKeepsIInv ==
  ASSUME IInv, NEW c \in Callers, Conclude(c)
  PROVE  IInv'
  <1> DEFINE k == call[c]
             v == Decide(k.action, k.bundle, k.prior, k.opts, k.expected, k.before)
             w == [k EXCEPT !.phase = "write", !.todo = WriteSet(k), !.verdict = v]
             r == RecordOf(k, v, FALSE, k.before)
  <1>1. k \in Calls /\ CallOK(k)
    BY DEF Conclude, IInv, TypeOK, CallsOK, Running
  <1>2. v \in Verdicts
    BY <1>1, DecideContinues, InputsAssumption DEF Calls
  <1>3. CASE v.decision = "continue" /\ k.opts.execute
    <2>1. Becomes(c, w) /\ UNCHANGED <<ws, records>>
      BY <1>3 DEF Conclude
    <2>2. WriteSet(k) \in SUBSET Paths
      BY DEF WriteSet, Covered, Changed
    <2>3. w \in Calls
      BY <1>1, <1>2, <2>2 DEF Calls, Phases
    <2>4. Authorized(k)
      BY <1>1, <1>3, ContinuedIsAuthorized
    <2>5. Authorized(w)
      BY <1>1, <2>4 DEF Calls, Authorized
    <2>6. CallOK(w)
      BY <1>1, <1>3, <2>5 DEF Calls, CallOK, WriteSet
    <2>7. QED
      BY <2>1, <2>3, <2>6, BecomesOne DEF IInv, TypeOK, RestoredIsPrior
  <1>4. CASE ~(v.decision = "continue" /\ k.opts.execute)
    <2>1. Becomes(c, Idle) /\ records' = records \cup {r} /\ ws' = ws
      BY <1>4 DEF Conclude
    <2>2. r \in ApplyRecords \cup RollbackRecords
      BY <1>1, <1>2, RecordIsOne DEF Calls
    <2>3. r.executed = FALSE
      BY DEF RecordOf
    <2>4. call' \in [Callers -> Calls \cup {Idle}] /\ CallsOK'
      BY <2>1, BecomesOne DEF IInv
    <2>5. RestoredIsPrior'
      BY <2>1, <2>3 DEF IInv, RestoredIsPrior
    <2>6. QED
      BY <2>1, <2>2, <2>4, <2>5 DEF IInv, TypeOK
  <1>5. QED
    BY <1>3, <1>4

\* Writing one path keeps the invariant.
LEMMA WriteKeepsIInv ==
  ASSUME IInv, NEW c \in Callers, Write(c)
  PROVE  IInv'
  <1> DEFINE k == call[c]
  <1>1. PICK p \in Paths :
          /\ p \in k.todo
          /\ ws' = FS!Put(ws, p, Target(k, p))
          /\ Becomes(c, [k EXCEPT !.todo = @ \ {p}])
    BY DEF Write, IsNext
  <1>2. k \in Calls /\ CallOK(k) /\ k.phase = "write"
    BY DEF Write, IInv, TypeOK, CallsOK, Running
  <1>3. Target(k, p) \in Entry
    <2>1. p \in WriteSet(k) /\ k.bundle \in BundleType
      BY <1>1, <1>2, InputsAssumption DEF Calls, CallOK
    <2>2. CASE k.action = "rollback"
      <3>1. k.prior.before \in Snapshots
        BY <1>2, <2>2 DEF CallOK, ApplyRecords, RecordsWithPrior
      <3>2. QED
        BY <2>1, <2>2, <3>1 DEF Target, WriteSet, Covered, Snapshots
    <2>3. CASE k.action # "rollback"
      BY <2>1, <2>3 DEF Target, BundleType, Entry
    <2>4. QED
      BY <2>2, <2>3
  <1>4. ws' \in FS!Workspaces
    BY <1>1, <1>3, PutKeepsWorkspace DEF IInv, TypeOK
  <1>5. UNCHANGED records
    BY DEF Write
  <1> DEFINE m == [k EXCEPT !.todo = @ \ {p}]
  <1>6. m \in Calls
    BY <1>2 DEF Calls
  <1>7. CallOK(m)
    BY <1>2 DEF Calls, CallOK, Authorized, WriteSet
  <1>8. QED
    BY <1>1, <1>4, <1>5, <1>6, <1>7, BecomesOne DEF IInv, TypeOK, RestoredIsPrior

\* Starting to read back keeps the invariant.
LEMMA WrittenKeepsIInv ==
  ASSUME IInv, NEW c \in Callers, Written(c)
  PROVE  IInv'
  <1> DEFINE k == call[c]
             m == [k EXCEPT !.phase = "recapture", !.todo = Changed(k.bundle)]
  <1>1. k \in Calls /\ CallOK(k) /\ k.phase = "write"
    BY DEF Written, IInv, TypeOK, CallsOK, Running
  <1>2. Becomes(c, m) /\ UNCHANGED <<ws, records>>
    BY DEF Written
  <1>3. Changed(k.bundle) \in SUBSET Paths
    BY DEF Changed
  <1>4. m \in Calls
    BY <1>1, <1>3 DEF Calls, Phases
  <1>5. CallOK(m)
    BY <1>1 DEF Calls, CallOK, Authorized
  <1>6. QED
    BY <1>2, <1>4, <1>5, BecomesOne DEF IInv, TypeOK, RestoredIsPrior

\* Returning a record keeps the invariant: a record that claims a restore compared.
LEMMA ReturnKeepsIInv ==
  ASSUME IInv, NEW c \in Callers, Return(c)
  PROVE  IInv'
  <1> DEFINE k == call[c]
             v == IF k.action = "rollback" /\ k.after # k.prior.before
                  THEN Verdict("stop", "conflict_detected") ELSE k.verdict
             r == RecordOf(k, v, TRUE, k.after)
  <1>1. k \in Calls /\ CallOK(k) /\ k.verdict.decision = "continue"
    BY DEF Return, IInv, TypeOK, CallsOK, Running, CallOK
  <1>2. Becomes(c, Idle) /\ records' = records \cup {r} /\ ws' = ws
    BY DEF Return
  <1>3. v \in Verdicts
    BY <1>1 DEF Calls, Verdicts, Verdict, Decisions, Reasons
  <1>4. /\ r \in ApplyRecords \cup RollbackRecords
        /\ r.restored <=> k.action = "rollback" /\ k.after = k.prior.before
    BY <1>1, <1>3, RecordIsOne DEF Calls
  <1>5. /\ r.action = k.action /\ r.verdict = v /\ r.changed \subseteq Paths
        /\ r.after = k.after /\ r.prior = k.prior
    BY DEF RecordOf, Changed
  <1>6. k.action = "rollback" => (r.restored <=> v.decision = "continue")
    BY <1>1, <1>4 DEF Verdict
  <1>7. RestoredIsPrior'
    BY ZenonT(60), <1>2, <1>4, <1>5, <1>6 DEF IInv, RestoredIsPrior
  <1>8. call' \in [Callers -> Calls \cup {Idle}] /\ CallsOK'
    BY <1>2, BecomesOne DEF IInv
  <1>9. QED
    BY <1>2, <1>4, <1>7, <1>8 DEF IInv, TypeOK

\* A call that throws or dies leaves a workspace, and no record.
LEMMA ThrowOrFailKeepsIInv ==
  ASSUME IInv, NEW c \in Callers, Throw(c) \/ Fail(c)
  PROVE  IInv'
  <1>1. Becomes(c, Idle) /\ UNCHANGED records
    BY DEF Throw, Fail
  <1>2. ws' \in FS!Workspaces
    <2>1. Torn \in Entry
      BY InputsAssumption DEF Entry
    <2>2. QED
      BY <2>1, PutKeepsWorkspace DEF Throw, Fail, IInv, TypeOK
  <1>3. QED
    BY <1>1, <1>2, BecomesOne DEF IInv, TypeOK, RestoredIsPrior

\* What users, editors and git do to the tree keeps the invariant.
LEMMA UsersKeepIInv ==
  ASSUME IInv, Users
  PROVE  IInv'
  <1>1. UNCHANGED <<call, records>>
    BY DEF Users, Edit, RemoveDirectory
  <1>2. ws' \in FS!Workspaces
    <2>1. CASE \E p \in Paths, e \in UserContents \cup {Absent} : Edit(p, e)
      <3>1. UserContents \cup {Absent} \subseteq Entry
        BY InputsAssumption DEF Entry
      <3>2. QED
        BY <2>1, <3>1, PutKeepsWorkspace DEF Edit, IInv, TypeOK
    <2>2. CASE \E p \in Paths : RemoveDirectory(p)
      BY <2>2 DEF RemoveDirectory, IInv, TypeOK, FS!Workspaces, FS!Node
    <2>3. QED
      BY <2>1, <2>2 DEF Users
  <1>3. QED
    BY <1>1, <1>2 DEF IInv, TypeOK, CallsOK, Running, RestoredIsPrior

-----------------------------------------------------------------------------
(* The theorems.                                                           *)

\* Every step keeps the inductive invariant.
LEMMA NextKeepsIInv == IInv /\ [Next]_vars => IInv'
  <1> SUFFICES ASSUME IInv, [Next]_vars  PROVE IInv'
    OBVIOUS
  <1>1. ASSUME NEW c \in Callers, Step(c)  PROVE IInv'
    BY <1>1, CaptureKeepsIInv, ConcludeKeepsIInv, WriteKeepsIInv, WrittenKeepsIInv,
       ReturnKeepsIInv, ThrowOrFailKeepsIInv DEF Step
  <1>2. CASE UNCHANGED vars
    BY <1>2 DEF vars, IInv, TypeOK, CallsOK, Running, RestoredIsPrior
  <1>3. QED
    BY <1>1, <1>2, BeginKeepsIInv, ThrowOrFailKeepsIInv, UsersKeepIInv DEF Next

\* The inductive invariant holds whatever other processes, users and failures
\* do between the file system calls of apply-rollback.ts.
THEOREM InductiveInvariant == Spec => []IInv
  <1>1. Init => IInv
    BY InitIInv
  <1>2. IInv /\ [Next]_vars => IInv'
    BY NextKeepsIInv
  <1>3. QED
    BY <1>1, <1>2, PTL DEF Spec

\* Calls, records and the workspace keep their types, for any set of paths,
\* bundles, options and callers.
THEOREM TypeCorrect == Spec => []TypeOK
  BY InductiveInvariant, PTL DEF IInv

\* No file is touched by a call that some check of RFC-002 forbids, however
\* the seven gates of the chain are ordered against each other.
THEOREM OnlyAuthorizedCallsMutate == Spec => []MutationIsAuthorized
  <1>1. IInv => MutationIsAuthorized
    BY DEF IInv, CallsOK, CallOK, MutationIsAuthorized
  <1>2. QED
    BY <1>1, InductiveInvariant, PTL

\* A rollback record says `restored' and `continue' only of a state that was
\* read back as the prior one, on every changed path.
THEOREM RestoredMeansPrior == Spec => []RestoredIsPrior
  BY InductiveInvariant, PTL DEF IInv

-----------------------------------------------------------------------------
(* Undisturbed, for every tree of paths: also for trees in which an edited  *)
(* path lies below another.                                                *)

-----------------------------------------------------------------------------
(* The invariant of an undisturbed controller.                             *)

AtMostOne == \A c, d \in Callers : Running(c) /\ Running(d) => c = d

\* The snapshot in a record is of the paths that the record says changed.
RecordsCover == \A r \in records : Covered(r.before) = r.changed

\* A directory at a path that the call k edits, made for a path below it.
MadeDir(k, w, p) == w[p] = Dir /\ \E q \in Changed(k.bundle) : p \in Above[q]

\* What the call k knows of the workspace w, phase by phase: it has captured
\* what is there; what it has not written yet is as captured; what it has
\* written is as it was to be; what it has read back is that.
CaptureKnows(k, w) ==
  \A p \in Paths :
    k.before[p] = IF p \in Changed(k.bundle) \ k.todo THEN w[p] ELSE Null

WriteKnows(k, w) ==
  /\ Covered(k.before) = Changed(k.bundle)
  /\ WriteSet(k) = Changed(k.bundle)
  /\ \A p \in Changed(k.bundle) :
       \/ w[p] = IF p \in k.todo THEN k.before[p] ELSE Target(k, p)
       \/ MadeDir(k, w, p)

RecaptureKnows(k, w) ==
  /\ Covered(k.before) = Changed(k.bundle)
  /\ WriteSet(k) = Changed(k.bundle)
  /\ \A p \in Changed(k.bundle) : w[p] = Target(k, p) \/ MadeDir(k, w, p)
  /\ \A p \in Paths :
       k.after[p] = IF p \in Changed(k.bundle) \ k.todo THEN Target(k, p) ELSE Null

Knows(k, w) ==
  /\ k.todo \subseteq Changed(k.bundle)
  /\ k.action = "rollback" => Covered(k.prior.before) = k.prior.changed
  /\ k.phase = "capture" => CaptureKnows(k, w)
  /\ k.phase \in {"capture", "write"} => k.after = EmptySnapshot
  /\ k.phase = "write" => WriteKnows(k, w)
  /\ k.phase = "recapture" => RecaptureKnows(k, w)

CallsKnow == \A c \in Callers : Running(c) => Knows(call[c], ws)

QuietInv == IInv /\ AtMostOne /\ RecordsCover /\ CallsKnow

-----------------------------------------------------------------------------

\* Nothing that can be at a path is Null, and no file entry is a directory.
LEMMA NodesAreMarked ==
  /\ Null \notin FS!Node
  /\ Dir \notin Entry
  BY MarksAssumption, InputsAssumption DEF FS!Node, Entry

\* The one call under way goes on to a call that knows what it should.
LEMMA AloneGoesOn ==
  ASSUME TypeOK, AtMostOne, NEW c \in Callers, Running(c) \/ AllIdle,
         NEW k, Becomes(c, k), k # Idle => Knows(k, ws')
  PROVE  AtMostOne' /\ CallsKnow'
  <1>1. \A d \in Callers : Running(d)' => d = c
    BY DEF TypeOK, Becomes, Running, AtMostOne, AllIdle
  <1>2. call'[c] = k
    BY DEF TypeOK, Becomes
  <1>3. QED
    BY <1>1, <1>2 DEF AtMostOne, CallsKnow, Running

\* What a loop leaves at a path is a file entry.
LEMMA TargetIsAnEntry ==
  ASSUME NEW k \in Calls, CallOK(k), NEW p \in WriteSet(k)
  PROVE  Target(k, p) \in Entry
  <1>1. p \in Paths /\ k.bundle \in BundleType
    BY InputsAssumption DEF Calls, WriteSet, Covered, Changed
  <1>2. CASE k.action = "rollback"
    <2>1. k.prior.before \in Snapshots
      BY <1>2 DEF CallOK, ApplyRecords, RecordsWithPrior
    <2>2. QED
      BY <1>1, <1>2, <2>1 DEF Target, WriteSet, Covered, Snapshots
  <1>3. CASE k.action # "rollback"
    BY <1>1, <1>3 DEF Target, BundleType, Entry
  <1>4. QED
    BY <1>2, <1>3

\* A call that begins while nobody is under way has captured and written nothing yet.
LEMMA BeginKeepsQuietInv ==
  ASSUME QuietInv, NEW c \in Callers, AllIdle, Begins(c)
  PROVE  QuietInv'
  <1>1. PICK action \in Actions, b \in Bundles, o \in Options,
             prior \in records \cup {Null},
             expected \in {r.before : r \in records} \cup {Null} :
               Begin(c, action, b, prior, o, expected)
    BY DEF Begins
  <1> DEFINE k == [phase |-> "capture", action |-> action, bundle |-> b, opts |-> o,
                   expected |-> expected, prior |-> prior, todo |-> Changed(b),
                   before |-> EmptySnapshot, after |-> EmptySnapshot,
                   verdict |-> Pass]
  <1>2. Becomes(c, k) /\ UNCHANGED <<ws, records>>
    BY <1>1 DEF Begin
  <1>3. CaptureKnows(k, ws)
    BY DEF CaptureKnows, EmptySnapshot
  <1>4. Knows(k, ws')
    BY <1>1, <1>2, <1>3 DEF Knows, QuietInv, RecordsCover, Begin
  <1>5. AtMostOne' /\ CallsKnow'
    BY <1>2, <1>4, AloneGoesOn DEF QuietInv, IInv
  <1>6. IInv'
    BY BeginKeepsIInv DEF QuietInv
  <1>7. QED
    BY <1>2, <1>5, <1>6 DEF QuietInv, RecordsCover

\* What an undisturbed call captures is what is there.
LEMMA CaptureKeepsQuietInv ==
  ASSUME QuietInv, NEW c \in Callers, Capture(c)
  PROVE  QuietInv'
  <1> DEFINE k == call[c]
  <1>1. PICK p \in Paths :
          /\ p \in k.todo
          /\ FS!Readable(ws, p)
          /\ Becomes(c, IF k.phase = "capture"
                        THEN [k EXCEPT !.todo = @ \ {p}, !.before[p] = ws[p]]
                        ELSE [k EXCEPT !.todo = @ \ {p}, !.after[p] = ws[p]])
    BY DEF Capture, IsNext
  <1> DEFINE b == [k EXCEPT !.todo = @ \ {p}, !.before[p] = ws[p]]
             a == [k EXCEPT !.todo = @ \ {p}, !.after[p] = ws[p]]
  <1>2. /\ Running(c) /\ k \in Calls /\ Knows(k, ws)
        /\ k.phase \in {"capture", "recapture"}
    BY DEF Capture, QuietInv, IInv, TypeOK, CallsKnow, Running
  <1>3. UNCHANGED <<ws, records>>
    BY DEF Capture
  <1>4. ASSUME k.phase = "capture"  PROVE AtMostOne' /\ CallsKnow'
    <2>1. /\ b.todo = k.todo \ {p} /\ b.bundle = k.bundle /\ b.prior = k.prior
          /\ b.phase = k.phase /\ b.after = k.after /\ b.action = k.action
          /\ b.before = [k.before EXCEPT ![p] = ws[p]]
      BY <1>2 DEF Calls
    <2>2. CaptureKnows(b, ws)
      BY <1>1, <1>2, <1>4, <2>1 DEF Knows, CaptureKnows, Calls, Snapshots
    <2>3. Knows(b, ws')
      BY <1>2, <1>3, <1>4, <2>1, <2>2 DEF Knows
    <2>4. Becomes(c, b)
      BY <1>1, <1>4
    <2>5. QED
      BY <1>2, <2>3, <2>4, AloneGoesOn DEF QuietInv, IInv
  <1>5. ASSUME k.phase = "recapture"  PROVE AtMostOne' /\ CallsKnow'
    <2>1. /\ a.todo = k.todo \ {p} /\ a.bundle = k.bundle /\ a.prior = k.prior
          /\ a.phase = k.phase /\ a.before = k.before /\ a.action = k.action
          /\ a.after = [k.after EXCEPT ![p] = ws[p]]
      BY <1>2 DEF Calls
    <2>2. ws[p] = Target(k, p)
      BY <1>1, <1>2, <1>5 DEF Knows, RecaptureKnows, MadeDir, FS!Readable
    <2>3. RecaptureKnows(a, ws)
      BY ZenonT(60), <1>1, <1>2, <1>5, <2>1, <2>2
      DEF Knows, RecaptureKnows, MadeDir, Target, WriteSet, Calls, Snapshots
    <2>4. Knows(a, ws')
      BY <1>2, <1>3, <1>5, <2>1, <2>3 DEF Knows
    <2>5. Becomes(c, a)
      BY <1>1, <1>5
    <2>6. QED
      BY <1>2, <2>4, <2>5, AloneGoesOn DEF QuietInv, IInv
  <1>6. AtMostOne' /\ CallsKnow'
    BY <1>2, <1>4, <1>5
  <1>7. IInv'
    BY CaptureKeepsIInv DEF QuietInv
  <1>8. QED
    BY <1>3, <1>6, <1>7 DEF QuietInv, RecordsCover

\* Deciding changes neither the tree nor what the call knows of it.
LEMMA ConcludeKeepsQuietInv ==
  ASSUME QuietInv, NEW c \in Callers, Conclude(c)
  PROVE  QuietInv'
  <1> DEFINE k == call[c]
             v == Decide(k.action, k.bundle, k.prior, k.opts, k.expected, k.before)
             w == [k EXCEPT !.phase = "write", !.todo = WriteSet(k), !.verdict = v]
             r == RecordOf(k, v, FALSE, k.before)
  <1>1. /\ Running(c) /\ k \in Calls /\ CallOK(k) /\ Knows(k, ws)
        /\ k.phase = "capture" /\ k.todo = {}
    BY DEF Conclude, QuietInv, IInv, TypeOK, CallsOK, CallsKnow, Running
  <1>2. \A p \in Paths :
          k.before[p] = IF p \in Changed(k.bundle) THEN ws[p] ELSE Null
    BY <1>1 DEF Knows, CaptureKnows
  <1>3. Covered(k.before) = Changed(k.bundle)
    BY <1>2, NodesAreMarked
    DEF Covered, Changed, QuietInv, IInv, TypeOK, FS!Workspaces
  <1>4. UNCHANGED ws
    BY DEF Conclude
  <1>5. CASE v.decision = "continue" /\ k.opts.execute
    <2>1. Becomes(c, w) /\ UNCHANGED records
      BY <1>5 DEF Conclude
    <2>2. Authorized(k)
      BY <1>1, <1>5, ContinuedIsAuthorized
    <2>3. WriteSet(k) = Changed(k.bundle)
      BY <1>1, <2>2 DEF Knows, CallOK, Authorized, WriteSet
    <2>4. /\ w.phase = "write" /\ w.todo = Changed(k.bundle) /\ w.bundle = k.bundle
          /\ w.before = k.before /\ w.after = k.after /\ w.prior = k.prior
          /\ w.action = k.action
      BY <1>1, <2>3 DEF Calls
    <2>5. WriteKnows(w, ws)
      BY ZenonT(60), <1>2, <1>3, <2>3, <2>4 DEF WriteKnows, WriteSet, Changed
    <2>6. Knows(w, ws')
      BY <1>1, <1>4, <2>4, <2>5 DEF Knows
    <2>7. AtMostOne' /\ CallsKnow'
      BY <1>1, <2>1, <2>6, AloneGoesOn DEF QuietInv, IInv
    <2>8. QED
      BY <2>1, <2>7, ConcludeKeepsIInv DEF QuietInv, RecordsCover
  <1>6. CASE ~(v.decision = "continue" /\ k.opts.execute)
    <2>1. Becomes(c, Idle) /\ records' = records \cup {r}
      BY <1>6 DEF Conclude
    <2>2. r.before = k.before /\ r.changed = Changed(k.bundle)
      BY DEF RecordOf
    <2>3. RecordsCover'
      BY <1>3, <2>1, <2>2 DEF QuietInv, RecordsCover
    <2>4. AtMostOne' /\ CallsKnow'
      BY <1>1, <2>1, AloneGoesOn DEF QuietInv, IInv
    <2>5. QED
      BY <2>3, <2>4, ConcludeKeepsIInv DEF QuietInv
  <1>7. QED
    BY <1>5, <1>6

\* A write moves one path from those that hold what was captured to those that hold
\* what was to be written.
LEMMA WriteKeepsQuietInv ==
  ASSUME QuietInv, NEW c \in Callers, Write(c)
  PROVE  QuietInv'
  <1> DEFINE k == call[c]
  <1>1. PICK p \in Paths :
          /\ p \in k.todo
          /\ FS!CanPut(ws, p, Target(k, p))
          /\ ws' = FS!Put(ws, p, Target(k, p))
          /\ Becomes(c, [k EXCEPT !.todo = @ \ {p}])
    BY DEF Write, IsNext
  <1> DEFINE m == [k EXCEPT !.todo = @ \ {p}]
  <1>2. /\ Running(c) /\ k \in Calls /\ Knows(k, ws) /\ k.phase = "write"
    BY DEF Write, QuietInv, IInv, TypeOK, CallsKnow, Running
  <1>3. /\ m.phase = "write" /\ m.todo = k.todo \ {p} /\ m.bundle = k.bundle
        /\ m.before = k.before /\ m.after = k.after /\ m.prior = k.prior
        /\ m.action = k.action
    BY <1>2 DEF Calls
  <1>4. ws' \in [Paths -> FS!Node] /\ ws'[p] = Target(k, p)
    BY <1>1, WriteKeepsIInv DEF QuietInv, IInv, TypeOK, FS!Workspaces, FS!Put,
       FS!WithParents
  <1>5. \A q \in Paths : q # p =>
          ws'[q] = ws[q] \/ (ws'[q] = Dir /\ q \in Above[p])
    BY <1>1 DEF QuietInv, IInv, TypeOK, FS!Workspaces, FS!Put, FS!WithParents
  <1>6. p \in Changed(k.bundle)
    BY <1>1, <1>2 DEF Knows
  <1>7. ASSUME NEW q \in Changed(k.bundle)
        PROVE  \/ ws'[q] = IF q \in m.todo THEN m.before[q] ELSE Target(m, q)
               \/ MadeDir(m, ws', q)
    <2>1. Target(m, q) = Target(k, q)
      BY <1>3 DEF Target
    <2>2. CASE q = p
      BY <1>3, <1>4, <2>1, <2>2
    <2>3. CASE q # p
      <3>1. q \in Paths
        BY DEF Changed
      <3>2. \/ ws[q] = IF q \in k.todo THEN k.before[q] ELSE Target(k, q)
            \/ MadeDir(k, ws, q)
        BY <1>2 DEF Knows, WriteKnows
      <3>3. q \in m.todo <=> q \in k.todo
        BY <1>3, <2>3
      <3>4. CASE ws'[q] = ws[q]
        BY <3>2, <3>3, <3>4, <1>3, <2>1 DEF MadeDir
      <3>5. CASE ws'[q] = Dir /\ q \in Above[p]
        BY <3>5, <1>3, <1>6 DEF MadeDir
      <3>6. QED
        BY <3>1, <3>4, <3>5, <1>5, <2>3
    <2>4. QED
      BY <2>2, <2>3
  <1>8. WriteKnows(m, ws')
    BY <1>2, <1>3, <1>7 DEF Knows, WriteKnows, WriteSet
  <1>9. Knows(m, ws')
    BY <1>2, <1>3, <1>8 DEF Knows
  <1>10. AtMostOne' /\ CallsKnow'
    BY <1>1, <1>2, <1>9, AloneGoesOn DEF QuietInv, IInv
  <1>11. UNCHANGED records
    BY DEF Write
  <1>12. QED
    BY <1>10, <1>11, WriteKeepsIInv DEF QuietInv, RecordsCover

\* Starting to read back forgets no path that was written.
LEMMA WrittenKeepsQuietInv ==
  ASSUME QuietInv, NEW c \in Callers, Written(c)
  PROVE  QuietInv'
  <1> DEFINE k == call[c]
             m == [k EXCEPT !.phase = "recapture", !.todo = Changed(k.bundle)]
  <1>1. /\ Running(c) /\ k \in Calls /\ Knows(k, ws)
        /\ k.phase = "write" /\ k.todo = {}
    BY DEF Written, QuietInv, IInv, TypeOK, CallsKnow, Running
  <1>2. Becomes(c, m) /\ UNCHANGED <<ws, records>>
    BY DEF Written
  <1>3. /\ m.phase = "recapture" /\ m.todo = Changed(m.bundle) /\ m.bundle = k.bundle
        /\ m.before = k.before /\ m.after = k.after /\ m.prior = k.prior
        /\ m.action = k.action
    BY <1>1 DEF Calls
  <1>4. RecaptureKnows(m, ws)
    BY <1>1, <1>3
    DEF Knows, WriteKnows, RecaptureKnows, WriteSet, Target, MadeDir, EmptySnapshot
  <1>5. Knows(m, ws')
    BY <1>1, <1>2, <1>3, <1>4 DEF Knows
  <1>6. AtMostOne' /\ CallsKnow'
    BY <1>1, <1>2, <1>5, AloneGoesOn DEF QuietInv, IInv
  <1>7. QED
    BY <1>2, <1>6, WrittenKeepsIInv DEF QuietInv, RecordsCover

\* A call that returns leaves a record that knows every path of its bundle.
LEMMA ReturnKeepsQuietInv ==
  ASSUME QuietInv, NEW c \in Callers, Return(c)
  PROVE  QuietInv'
  <1> DEFINE k == call[c]
             v == IF k.action = "rollback" /\ k.after # k.prior.before
                  THEN Verdict("stop", "conflict_detected") ELSE k.verdict
             r == RecordOf(k, v, TRUE, k.after)
  <1>1. Running(c) /\ Knows(k, ws) /\ k.phase = "recapture"
    BY DEF Return, QuietInv, CallsKnow
  <1>2. Becomes(c, Idle) /\ records' = records \cup {r}
    BY DEF Return
  <1>3. r.before = k.before /\ r.changed = Changed(k.bundle)
    BY DEF RecordOf
  <1>4. RecordsCover'
    BY <1>1, <1>2, <1>3 DEF QuietInv, RecordsCover, Knows, RecaptureKnows
  <1>5. AtMostOne' /\ CallsKnow'
    BY <1>1, <1>2, AloneGoesOn DEF QuietInv, IInv
  <1>6. QED
    BY <1>4, <1>5, ReturnKeepsIInv DEF QuietInv

\* A call that throws leaves nobody under way.
LEMMA ThrowKeepsQuietInv ==
  ASSUME QuietInv, NEW c \in Callers, Throw(c)
  PROVE  QuietInv'
  <1>1. Running(c) /\ Becomes(c, Idle) /\ UNCHANGED records
    BY DEF Throw
  <1>2. AtMostOne' /\ CallsKnow'
    BY <1>1, AloneGoesOn DEF QuietInv, IInv
  <1>3. QED
    BY <1>1, <1>2, ThrowOrFailKeepsIInv DEF QuietInv, RecordsCover

\* Users who work between calls disturb no call.
LEMMA UsersKeepQuietInv ==
  ASSUME QuietInv, AllIdle, Users
  PROVE  QuietInv'
  <1>1. UNCHANGED <<call, records>>
    BY DEF Users, Edit, RemoveDirectory
  <1>2. QED
    BY <1>1, UsersKeepIInv
    DEF QuietInv, AtMostOne, CallsKnow, RecordsCover, AllIdle, Running

\* The quiet invariant holds at first.
LEMMA InitQuietInv == Init => QuietInv
  BY InitIInv DEF Init, QuietInv, AtMostOne, RecordsCover, CallsKnow, Running, Idle

\* Every step of the quiet setting keeps the quiet invariant.
LEMMA NextKeepsQuietInv == QuietInv /\ [QuietNext]_vars => QuietInv'
  <1> SUFFICES ASSUME QuietInv, [QuietNext]_vars  PROVE QuietInv'
    OBVIOUS
  <1>1. ASSUME NEW c \in Callers, Step(c)  PROVE QuietInv'
    BY <1>1, CaptureKeepsQuietInv, ConcludeKeepsQuietInv, WriteKeepsQuietInv,
       WrittenKeepsQuietInv, ReturnKeepsQuietInv, ThrowKeepsQuietInv DEF Step
  <1>2. CASE UNCHANGED vars
    <2>1. IInv'
      BY <1>2, NextKeepsIInv DEF QuietInv
    <2>2. QED
      BY <1>2, <2>1
      DEF vars, QuietInv, AtMostOne, CallsKnow, RecordsCover, Running
  <1>3. QED
    BY <1>1, <1>2, BeginKeepsQuietInv, UsersKeepQuietInv DEF QuietNext

-----------------------------------------------------------------------------
(* The theorems.                                                           *)

\* The invariant of the undisturbed controller.
THEOREM QuietInvariant == QuietSpec => []QuietInv
  BY InitQuietInv, NextKeepsQuietInv, PTL DEF QuietSpec

\* An undisturbed call that wrote reads back what it was to write, on any
\* tree: an apply need not be compared with anything.
THEOREM UndisturbedReadsBack == QuietSpec => []ReadsBackTargets
  <1>1. QuietInv => ReadsBackTargets
    BY DEF QuietInv, CallsKnow, Knows, RecaptureKnows, ReadsBackTargets, Covered
  <1>2. QED
    BY <1>1, QuietInvariant, PTL

\* What the write loop of an undisturbed call replaces is what the call has
\* captured before it decided.
LEMMA StepOverwritesCaptured ==
  ASSUME QuietInv, [QuietNext]_vars, NEW c \in Callers, NEW p \in Paths,
         Running(c), call[c].phase = "write", ws'[p] # ws[p]
  PROVE  ws[p] = call[c].before[p] \/ (ws[p] = Absent /\ ws'[p] = Dir)
  <1> DEFINE k == call[c]
  <1>1. k \in Calls /\ Knows(k, ws) /\ CallOK(k)
    BY DEF QuietInv, IInv, TypeOK, CallsOK, CallsKnow, Running
  <1>2. Write(c)
    <2>1. PICK d \in Callers : Step(d)
      BY DEF QuietNext, AllIdle, vars
    <2>2. Running(d)
      BY <2>1 DEF Step, Capture, Conclude, Write, Written, Return, Throw
    <2>3. d = c
      BY <2>2 DEF QuietInv, AtMostOne
    <2>4. QED
      BY <2>1, <2>3 DEF Step, Capture, Conclude, Written, Return, Throw
  <1>3. PICK q \in Paths :
          /\ q \in k.todo
          /\ FS!CanPut(ws, q, Target(k, q))
          /\ ws' = FS!Put(ws, q, Target(k, q))
    BY <1>2 DEF Write, IsNext
  <1>4. CASE p = q
    BY <1>1, <1>3, <1>4
    DEF Knows, WriteKnows, MadeDir, FS!CanPut, FS!Removable, FS!Writable
  <1>5. CASE p # q
    <2>1. p \in Above[q] /\ ws'[p] = Dir /\ Target(k, q) # Absent
      BY <1>3, <1>5
      DEF FS!Put, FS!WithParents, QuietInv, IInv, TypeOK, FS!Workspaces
    <2>2. ws[p] \in {Absent, Dir}
      BY <1>3, <2>1 DEF FS!CanPut, FS!Writable, FS!ParentsCreatable
    <2>3. QED
      BY <2>1, <2>2
  <1>6. QED
    BY <1>4, <1>5

\* No file of an undisturbed workspace is overwritten by a call unless the
\* call holds what was in it.
THEOREM UndisturbedKeepsWhatItOverwrites == QuietSpec => OverwritesOnlyCaptured
  <1> DEFINE Keeps ==
        \A c \in Callers, p \in Paths :
          Running(c) /\ call[c].phase = "write" /\ ws'[p] # ws[p]
            => \/ ws[p] = call[c].before[p]
               \/ ws[p] = Absent /\ ws'[p] = Dir
  <1>1. QuietInv /\ [QuietNext]_vars => [Keeps]_vars
    BY StepOverwritesCaptured
  <1>2. QED
    BY <1>1, QuietInvariant, PTL DEF QuietSpec, OverwritesOnlyCaptured

\* A call that has begun to write throws only where paths clash.
LEMMA ThrowIsClash ==
  ASSUME QuietInv, NEW c \in Callers, Throw(c), call[c].phase \in {"write", "recapture"}
  PROVE  Clash(call[c])
  <1> DEFINE k == call[c]
  <1>1. Running(c) /\ k \in Calls /\ Knows(k, ws) /\ CallOK(k)
    BY DEF Throw, QuietInv, IInv, TypeOK, CallsOK, CallsKnow, Running
  <1>2. PICK p \in Paths :
          /\ p \in k.todo
          /\ IF k.phase = "write" THEN ~FS!CanPut(ws, p, Target(k, p))
             ELSE ~FS!Readable(ws, p)
    BY DEF Throw, Throws, IsNext
  <1>3. p \in Changed(k.bundle) /\ WriteSet(k) = Changed(k.bundle)
    BY <1>1, <1>2 DEF Knows, WriteKnows, RecaptureKnows
  <1>4. Target(k, p) \in Entry
    BY <1>1, <1>3, TargetIsAnEntry
  <1>5. k.before[p] # Dir
    BY <1>1, InputsAssumption DEF Calls, Snapshots
  <1>6. ASSUME ws[p] = Dir  PROVE Clash(k)
    <2>1. MadeDir(k, ws, p)
      BY <1>1, <1>2, <1>3, <1>4, <1>5, <1>6, NodesAreMarked
      DEF Knows, WriteKnows, RecaptureKnows
    <2>2. QED
      BY <1>3, <2>1 DEF MadeDir, Clash
  <1>7. ASSUME k.phase = "write", ws[p] # Dir  PROVE Clash(k)
    <2>1. PICK q \in Above[p] : ws[q] \notin {Absent, Dir}
      BY <1>2, <1>7 DEF FS!CanPut, FS!Removable, FS!Writable, FS!ParentsCreatable
    <2>2. q \in Paths
      BY TreeAssumption DEF FS!AboveAssumption
    <2>3. ws[q] \in Contents
      BY <2>1, <2>2 DEF QuietInv, IInv, TypeOK, FS!Workspaces, FS!Node
    <2>4. QED
      BY <1>3, <2>3 DEF Clash
  <1>8. QED
    BY <1>2, <1>6, <1>7 DEF FS!Readable

\* An undisturbed call is all or nothing, unless paths clash.
THEOREM UndisturbedIsAllOrNothing == QuietSpec => AllOrNothing
  <1> DEFINE Whole ==
        \A c \in Callers :
          Running(c) /\ call[c].phase \in {"write", "recapture"} /\ Throw(c)
            => Clash(call[c])
  <1>1. QuietInv /\ [QuietNext]_vars => [Whole]_vars
    BY ThrowIsClash
  <1>2. QED
    BY <1>1, QuietInvariant, PTL DEF QuietSpec, AllOrNothing

-----------------------------------------------------------------------------
(* Where no path lies below another, ApplyRollback undisturbed implements   *)
(* UndoLog, for every set of paths, bundles and options; and as long as no   *)
(* bundle is applied twice, there is always a record to go back with.        *)

Flat == \A p \in Paths : Above[p] = {}

\* The prior record of a rollback under way is one of the records returned.
PriorReturned ==
  \A c \in Callers :
    Running(c) /\ call[c].action = "rollback" => call[c].prior \in records

RefInv == QuietInv /\ PriorReturned

-----------------------------------------------------------------------------
(* The refinement mapping, where nobody and where one call writes.         *)

Writes(c) == Running(c) /\ call[c].phase \in {"write", "recapture"}

\* What is seen of the workspace w while the call k writes.
Behind(k, w) ==
  [p \in Paths |-> IF p \in WriteSet(k) THEN k.before[p] ELSE FileView(w)[p]]

\* Where no call writes, the abstract files are the tree's.
LEMMA NobodyWrites ==
  /\ (\A c \in Callers : ~Writes(c)) => VisibleFiles = FileView(ws)
  /\ (\A c \in Callers : ~Writes(c)') => VisibleFiles' = FileView(ws')
  BY DEF VisibleFiles, Writing, Writes, FileView

\* Where one call writes, the abstract files are those behind it: what it captured.
LEMMA OneWrites ==
  ASSUME NEW c \in Callers
  PROVE  /\ AtMostOne /\ Writes(c) => VisibleFiles = Behind(call[c], ws)
         /\ AtMostOne' /\ Writes(c)' => VisibleFiles' = Behind(call'[c], ws')
  <1>1. ASSUME AtMostOne, Writes(c)  PROVE VisibleFiles = Behind(call[c], ws)
    <2>1. Writing = {c}
      BY <1>1 DEF Writing, Writes, AtMostOne
    <2>2. QED
      BY <2>1 DEF VisibleFiles, Behind
  <1>2. ASSUME AtMostOne', Writes(c)'  PROVE VisibleFiles' = Behind(call'[c], ws')
    <2>1. Writing' = {c}
      BY <1>2 DEF Writing, Writes, AtMostOne, Running
    <2>2. QED
      BY <2>1 DEF VisibleFiles, Behind, FileView
  <1>3. QED
    BY <1>1, <1>2

\* Files are seen as entries.
LEMMA FileViewIsEntries ==
  ASSUME NEW w \in FS!Workspaces
  PROVE  FileView(w) \in [Paths -> Entry]
  BY DEF FileView, FS!Workspaces, FS!Node, Entry

\* The plan of a bundle says what its loop leaves, and nothing else.
LEMMA PlanIsTarget ==
  ASSUME NEW k \in Calls, k.action = "apply", NEW p \in Paths
  PROVE  /\ PlanOf(k.bundle) \in {PlanOf(b) : b \in Bundles}
         /\ p \in Changed(k.bundle) =>
              PlanOf(k.bundle)[p] = Target(k, p) /\ PlanOf(k.bundle)[p] # Null
         /\ p \notin Changed(k.bundle) => PlanOf(k.bundle)[p] = Null
  <1>1. k.bundle \in Bundles /\ k.bundle \in BundleType
    BY InputsAssumption DEF Calls
  <1>2. k.bundle.content \in Contents /\ k.bundle.edits[p] \in Operations
    BY <1>1 DEF BundleType
  <1>3. p \in Changed(k.bundle) <=> k.bundle.edits[p] # "none"
    BY DEF Changed
  <1>4. PlanOf(k.bundle)[p] =
          CASE k.bundle.edits[p] = "none"   -> Null
            [] k.bundle.edits[p] = "delete" -> Absent
            [] OTHER                        -> k.bundle.content
    BY DEF PlanOf
  <1>5. QED
    BY <1>1, <1>2, <1>3, <1>4, MarksAssumption DEF Target

-----------------------------------------------------------------------------
(* Steps that UndoLog does not see.                                        *)

LEMMA Unseen ==
  ASSUME VisibleFiles' = VisibleFiles, UNCHANGED records
  PROVE  UNCHANGED Undoable!vars
  BY DEF Undoable!vars, Entries, Undone, EntryOf, ValidPrevious

\* What a caller is at, after it went on to k, and that the others are idle.
LEMMA AfterBecomes ==
  ASSUME QuietInv, NEW c \in Callers, Running(c) \/ AllIdle, NEW k, Becomes(c, k)
  PROVE  /\ call'[c] = k
         /\ \A d \in Callers : d # c => ~Running(d) /\ ~Running(d)'
  BY DEF QuietInv, IInv, TypeOK, AtMostOne, AllIdle, Running, Becomes

\* The start of a call is a stutter of UndoLog.
LEMMA BeginUnseen ==
  ASSUME QuietInv, NEW c \in Callers, AllIdle, Begins(c)
  PROVE  UNCHANGED Undoable!vars
  <1>1. /\ \E k : Becomes(c, k) /\ k.phase = "capture"
        /\ UNCHANGED <<ws, records>>
    BY DEF Begins, Begin
  <1>2. call'[c].phase = "capture" /\ \A d \in Callers : d # c => ~Running(d)'
    BY <1>1, AfterBecomes
  <1>3. (\A d \in Callers : ~Writes(d)) /\ (\A d \in Callers : ~Writes(d)')
    BY <1>2 DEF Writes, AllIdle, Running
  <1>4. QED
    BY <1>1, <1>3, NobodyWrites, Unseen

\* Reading a path is a stutter of UndoLog.
LEMMA CaptureUnseen ==
  ASSUME QuietInv, NEW c \in Callers, Capture(c)
  PROVE  UNCHANGED Undoable!vars
  <1> DEFINE k == call[c]
             m == call'[c]
  <1>1. Running(c) /\ k \in Calls /\ UNCHANGED <<ws, records>> /\ QuietInv'
    BY CaptureKeepsQuietInv DEF Capture, QuietInv, IInv, TypeOK, Running
  <1>2. PICK p \in Paths :
          FS!Readable(ws, p) /\
          Becomes(c, IF k.phase = "capture"
                     THEN [k EXCEPT !.todo = @ \ {p}, !.before[p] = ws[p]]
                     ELSE [k EXCEPT !.todo = @ \ {p}, !.after[p] = ws[p]])
    BY DEF Capture
  <1>3. /\ m = IF k.phase = "capture"
               THEN [k EXCEPT !.todo = @ \ {p}, !.before[p] = ws[p]]
               ELSE [k EXCEPT !.todo = @ \ {p}, !.after[p] = ws[p]]
        /\ \A d \in Callers : d # c => ~Running(d) /\ ~Running(d)'
    BY <1>1, <1>2, AfterBecomes
  <1>4. CASE k.phase = "capture"
    <2>1. m.phase = "capture"
      BY <1>1, <1>3, <1>4 DEF Calls
    <2>2. (\A d \in Callers : ~Writes(d)) /\ (\A d \in Callers : ~Writes(d)')
      BY <1>3, <1>4, <2>1 DEF Writes, Running
    <2>3. QED
      BY <1>1, <2>2, NobodyWrites, Unseen
  <1>5. CASE k.phase # "capture"
    <2>1. /\ m.phase = k.phase /\ m.before = k.before /\ m.action = k.action
          /\ m.prior = k.prior /\ m.bundle = k.bundle
      BY <1>1, <1>3, <1>5 DEF Calls
    <2>2. Running(c)'
      <3>1. ws[p] \in Entry
        BY <1>2 DEF QuietInv, IInv, TypeOK, FS!Readable, FS!Workspaces, FS!Node, Entry
      <3>2. [k EXCEPT !.todo = @ \ {p}, !.after[p] = ws[p]] \in Calls
        BY <1>1, <3>1 DEF Calls, Snapshots
      <3>3. QED
        BY <1>3, <1>5, <3>2, IdleAssumption DEF Running
    <2>3. Writes(c) /\ Writes(c)'
      BY <1>1, <1>5, <2>1, <2>2 DEF Writes, Calls, Phases, Running
    <2>4. Behind(m, ws') = Behind(k, ws)
      BY <1>1, <2>1 DEF Behind, WriteSet
    <2>5. QED
      BY <1>1, <2>3, <2>4, OneWrites, Unseen DEF QuietInv
  <1>6. QED
    BY <1>4, <1>5

\* Starting to read back is a stutter of UndoLog.
LEMMA WrittenUnseen ==
  ASSUME QuietInv, NEW c \in Callers, Written(c)
  PROVE  UNCHANGED Undoable!vars
  <1> DEFINE k == call[c]
             m == [k EXCEPT !.phase = "recapture", !.todo = Changed(k.bundle)]
  <1>1. /\ Running(c) /\ k \in Calls /\ k.phase = "write"
        /\ Becomes(c, m) /\ UNCHANGED <<ws, records>> /\ QuietInv'
    BY WrittenKeepsQuietInv DEF Written, QuietInv, IInv, TypeOK, Running
  <1>2. call'[c] = m
    BY <1>1, AfterBecomes
  <1>3. /\ m.phase = "recapture" /\ m.before = k.before /\ m.action = k.action
        /\ m.prior = k.prior /\ m.bundle = k.bundle
    BY <1>1 DEF Calls
  <1>4. m \in Calls
    BY <1>1 DEF Calls, Phases, Changed
  <1>5. Writes(c) /\ Writes(c)'
    BY <1>1, <1>2, <1>3, <1>4, IdleAssumption DEF Writes, Running
  <1>6. Behind(m, ws') = Behind(k, ws)
    BY <1>1, <1>3 DEF Behind, WriteSet
  <1>7. QED
    BY <1>1, <1>2, <1>5, <1>6, OneWrites, Unseen DEF QuietInv

\* Where no path lies below another, one path is put and no other changes.
LEMMA FlatPut ==
  ASSUME Flat, NEW w \in FS!Workspaces, NEW p \in Paths, NEW e
  PROVE  FS!Put(w, p, e) = [w EXCEPT ![p] = e]
  <1>1. FS!WithParents(w, p) = w
    BY DEF Flat, FS!WithParents, FS!Workspaces
  <1>2. QED
    BY <1>1 DEF FS!Put

\* A write is a stutter of UndoLog: its step is yet to come.
LEMMA WriteUnseen ==
  ASSUME Flat, QuietInv, NEW c \in Callers, Write(c)
  PROVE  UNCHANGED Undoable!vars
  <1> DEFINE k == call[c]
  <1>1. PICK p \in Paths :
          /\ p \in k.todo
          /\ ws' = FS!Put(ws, p, Target(k, p))
          /\ Becomes(c, [k EXCEPT !.todo = @ \ {p}])
    BY DEF Write, IsNext
  <1> DEFINE m == [k EXCEPT !.todo = @ \ {p}]
  <1>2. /\ Running(c) /\ k \in Calls /\ k.phase = "write" /\ Knows(k, ws)
        /\ UNCHANGED records /\ QuietInv'
    BY WriteKeepsQuietInv DEF Write, QuietInv, IInv, TypeOK, CallsKnow, Running
  <1>3. call'[c] = m
    BY <1>1, <1>2, AfterBecomes
  <1>4. /\ m.phase = "write" /\ m.before = k.before /\ m.action = k.action
        /\ m.prior = k.prior /\ m.bundle = k.bundle
    BY <1>2 DEF Calls
  <1>5. m \in Calls
    BY <1>2 DEF Calls
  <1>6. Writes(c) /\ Writes(c)'
    BY <1>2, <1>3, <1>4, <1>5, IdleAssumption DEF Writes, Running
  <1>7. p \in WriteSet(k)
    BY <1>1, <1>2 DEF Knows, WriteKnows
  <1>8. \A q \in Paths \ {p} : ws'[q] = ws[q]
    BY <1>1, FlatPut DEF QuietInv, IInv, TypeOK, FS!Workspaces
  <1>9. Behind(m, ws') = Behind(k, ws)
    BY <1>4, <1>7, <1>8 DEF Behind, WriteSet, FileView
  <1>10. QED
    BY <1>2, <1>3, <1>6, <1>9, OneWrites, Unseen DEF QuietInv

\* A call that throws has written nothing where no path lies below another.
LEMMA ThrowUnseen ==
  ASSUME Flat, QuietInv, NEW c \in Callers, Throw(c)
  PROVE  UNCHANGED Undoable!vars
  <1>1. ~Clash(call[c])
    BY DEF Flat, Clash, WriteSet, Covered, Changed
  <1>2. call[c].phase \notin {"write", "recapture"}
    BY <1>1, ThrowIsClash
  <1>3. Running(c) /\ Becomes(c, Idle) /\ UNCHANGED <<ws, records>>
    BY <1>2 DEF Throw
  <1>4. (\A d \in Callers : ~Writes(d)) /\ (\A d \in Callers : ~Writes(d)')
    BY <1>2, <1>3, AfterBecomes DEF Writes, Running
  <1>5. QED
    BY <1>3, <1>4, NobodyWrites, Unseen

-----------------------------------------------------------------------------
(* Steps that UndoLog sees.                                                *)

\* What returning a record adds to the log and to what was undone.
LEMMA LogGrows ==
  ASSUME NEW r, records' = records \cup {r}
  PROVE  /\ Entries' = IF ValidPrevious(r) THEN Entries \cup {EntryOf(r)} ELSE Entries
         /\ Undone' = IF r.restored THEN Undone \cup {EntryOf(r.prior)} ELSE Undone
  BY DEF Entries, Undone, EntryOf, ValidPrevious

\* The part of the files that a captured plan or record is about.
LEMMA UnderCaptured ==
  ASSUME NEW part, NEW snap \in Snapshots,
         \A p \in Paths : part[p] # Null => VisibleFiles[p] = snap[p],
         \A p \in Paths : part[p] = Null => snap[p] = Null
  PROVE  Undoable!Under(part) = snap
  BY DEF Undoable!Under, Snapshots

\* Nothing is seen of a decision, whatever it is.
LEMMA ConcludeShowsNothing ==
  ASSUME Flat, QuietInv, NEW c \in Callers, Conclude(c)
  PROVE  /\ VisibleFiles = FileView(ws) /\ VisibleFiles' = VisibleFiles
         /\ \A p \in Changed(call[c].bundle) : call[c].before[p] = VisibleFiles[p]
  <1> DEFINE k == call[c]
             v == Decide(k.action, k.bundle, k.prior, k.opts, k.expected, k.before)
             w == [k EXCEPT !.phase = "write", !.todo = WriteSet(k), !.verdict = v]
  <1>1. /\ Running(c) /\ k \in Calls /\ CallOK(k) /\ Knows(k, ws)
        /\ k.phase = "capture" /\ k.todo = {} /\ ws' = ws /\ QuietInv'
    BY ConcludeKeepsQuietInv
    DEF Conclude, QuietInv, IInv, TypeOK, CallsOK, CallsKnow, Running
  <1>2. VisibleFiles = FileView(ws)
    BY <1>1, NobodyWrites DEF Writes, QuietInv, AtMostOne
  <1>3. \A p \in Changed(k.bundle) : k.before[p] = FileView(ws)[p]
    <2>1. \A p \in Changed(k.bundle) : k.before[p] = ws[p]
      BY <1>1 DEF Knows, CaptureKnows, Changed
    <2>2. \A p \in Paths : k.before[p] # Dir
      BY <1>1, InputsAssumption DEF Calls, Snapshots
    <2>3. QED
      BY <2>1, <2>2 DEF FileView, Changed
  <1>4. CASE v.decision = "continue" /\ k.opts.execute
    <2>1. Becomes(c, w) /\ UNCHANGED records
      BY <1>4 DEF Conclude
    <2>2. call'[c] = w /\ w.phase = "write" /\ w.before = k.before
          /\ WriteSet(w) = WriteSet(k)
      BY <1>1, <2>1, AfterBecomes DEF Calls, WriteSet
    <2>3. Running(c)'
      <3>1. v \in Verdicts
        BY <1>1, DecideContinues, InputsAssumption DEF Calls
      <3>2. w \in Calls
        BY <1>1, <3>1 DEF Calls, Phases, WriteSet, Covered, Changed
      <3>3. QED
        BY <2>2, <3>2, IdleAssumption DEF Running
    <2>4. VisibleFiles' = Behind(w, ws)
      BY <1>1, <2>2, <2>3, OneWrites DEF Writes, QuietInv
    <2>5. WriteSet(k) = Changed(k.bundle)
      BY <1>1, <1>4, ContinuedIsAuthorized DEF Knows, CallOK, Authorized, WriteSet
    <2>6. Behind(w, ws) = FileView(ws)
      <3>1. \A p \in Paths :
              (IF p \in WriteSet(w) THEN w.before[p] ELSE FileView(ws)[p]) = FileView(ws)[p]
        BY <1>3, <2>2, <2>5
      <3>2. FileView(ws) = [p \in Paths |-> FileView(ws)[p]]
        BY DEF FileView
      <3>3. QED
        BY <3>1, <3>2 DEF Behind
    <2>7. QED
      BY <1>2, <1>3, <2>4, <2>6
  <1>5. CASE ~(v.decision = "continue" /\ k.opts.execute)
    <2>1. Becomes(c, Idle)
      BY <1>5 DEF Conclude
    <2>2. VisibleFiles' = VisibleFiles
      BY <1>1, <1>2, <2>1, AfterBecomes, NobodyWrites DEF Writes, Running
    <2>3. QED
      BY <1>2, <1>3, <2>2
  <1>6. QED
    BY <1>4, <1>5

\* Concluding without a write is a stutter, or an entry that changes nothing.
LEMMA ConcludeImplements ==
  ASSUME Flat, QuietInv, NEW c \in Callers, Conclude(c)
  PROVE  Undoable!Next \/ UNCHANGED Undoable!vars
  <1> DEFINE k == call[c]
             v == Decide(k.action, k.bundle, k.prior, k.opts, k.expected, k.before)
             r == RecordOf(k, v, FALSE, k.before)
             plan == PlanOf(k.bundle)
  <1>1. k \in Calls /\ Knows(k, ws) /\ k.phase = "capture" /\ k.todo = {}
    BY DEF Conclude, QuietInv, IInv, TypeOK, CallsKnow, Running
  <1>2. /\ VisibleFiles' = VisibleFiles
        /\ \A p \in Changed(k.bundle) : k.before[p] = VisibleFiles[p]
    BY ConcludeShowsNothing
  <1>3. \A p \in Paths \ Changed(k.bundle) : k.before[p] = Null
    BY <1>1 DEF Knows, CaptureKnows
  <1>4. CASE UNCHANGED records
    BY <1>2, <1>4, Unseen
  <1>5. CASE records' = records \cup {r}
    <2>1. r.action = k.action /\ r.restored = FALSE /\ EntryOf(r).before = k.before
          /\ EntryOf(r) = [before |-> k.before, after |-> k.before]
      BY DEF RecordOf, EntryOf
    <2>2. Undone' = Undone
      BY <1>5, <2>1, LogGrows
    <2>3. CASE ValidPrevious(r)
      <3>1. k.action = "apply"
        BY <2>1, <2>3 DEF ValidPrevious
      <3>2. Undoable!Under(plan) = k.before
        <4>1. k.before \in Snapshots
          BY <1>1 DEF Calls
        <4>2. \A p \in Paths : plan[p] # Null => VisibleFiles[p] = k.before[p]
          BY <1>1, <1>2, <3>1, PlanIsTarget
        <4>3. \A p \in Paths : plan[p] = Null => k.before[p] = Null
          BY <1>1, <1>3, <3>1, PlanIsTarget
        <4>4. QED
          BY <4>1, <4>2, <4>3, UnderCaptured
      <3>3. Entries' = Entries \cup {[before |-> k.before, after |-> k.before]}
        BY <1>5, <2>1, <2>3, LogGrows
      <3>4. Undoable!Preview(plan)
        BY <1>2, <2>2, <3>2, <3>3 DEF Undoable!Preview
      <3>5. plan \in {PlanOf(b) : b \in Bundles}
        BY <1>1 DEF Calls
      <3>6. QED
        BY <3>4, <3>5 DEF Undoable!Next
    <2>4. CASE ~ValidPrevious(r)
      <3>1. Entries' = Entries
        BY <1>5, <2>4, LogGrows
      <3>2. QED
        BY <1>2, <2>2, <3>1 DEF Undoable!vars
    <2>5. QED
      BY <2>3, <2>4
  <1>6. QED
    BY <1>4, <1>5 DEF Conclude

\* With the return of an executed call, what it wrote is seen.
LEMMA ReturnShows ==
  ASSUME Flat, RefInv, NEW c \in Callers, NEW k, k = call[c], Return(c)
  PROVE  /\ k \in Calls /\ CallOK(k) /\ Authorized(k) /\ k.verdict.decision = "continue"
         /\ Running(c) /\ Becomes(c, Idle)
         /\ k.before \in Snapshots /\ Covered(k.before) = Changed(k.bundle)
         /\ WriteSet(k) = Changed(k.bundle)
         /\ \A p \in Paths :
              k.after[p] = IF p \in Changed(k.bundle) THEN Target(k, p) ELSE Null
         /\ \A p \in Paths :
              /\ p \in Changed(k.bundle) =>
                   VisibleFiles[p] = k.before[p] /\ VisibleFiles'[p] = Target(k, p)
              /\ p \notin Changed(k.bundle) => VisibleFiles'[p] = VisibleFiles[p]
         /\ VisibleFiles' = [p \in Paths |-> VisibleFiles'[p]]
  <1>1. /\ Running(c) /\ k \in Calls /\ CallOK(k) /\ Knows(k, ws)
        /\ k.phase = "recapture" /\ k.todo = {} /\ ws' = ws /\ QuietInv /\ QuietInv'
    <2>1. QuietInv /\ QuietInv'
      BY ReturnKeepsQuietInv DEF RefInv
    <2>2. QED
      BY <2>1 DEF Return, QuietInv, IInv, TypeOK, CallsOK, CallsKnow, Running
  <1>2. Becomes(c, Idle)
    BY DEF Return
  <1>3. /\ Authorized(k) /\ k.verdict.decision = "continue"
        /\ WriteSet(k) = Changed(k.bundle) /\ Covered(k.before) = Changed(k.bundle)
        /\ k.before \in Snapshots
    BY <1>1 DEF CallOK, Knows, RecaptureKnows, Calls
  <1>4. \A p \in Changed(k.bundle) : ws[p] = Target(k, p) /\ Target(k, p) \in Entry
    <2>1. \A p \in Changed(k.bundle) : Target(k, p) \in Entry
      BY <1>1, <1>3, TargetIsAnEntry
    <2>2. \A p \in Changed(k.bundle) : ~MadeDir(k, ws, p)
      BY DEF Flat, MadeDir, Changed
    <2>3. QED
      BY <1>1, <2>1, <2>2 DEF Knows, RecaptureKnows
  <1>5. \A p \in Paths :
          k.after[p] = IF p \in Changed(k.bundle) THEN Target(k, p) ELSE Null
    BY <1>1 DEF Knows, RecaptureKnows
  <1>6. VisibleFiles = Behind(k, ws)
    BY <1>1, OneWrites DEF Writes, QuietInv
  <1>7. VisibleFiles' = FileView(ws)
    BY <1>1, <1>2, AfterBecomes, NobodyWrites DEF Writes, Running
  <1>8. \A p \in Paths :
          /\ p \in Changed(k.bundle) =>
               VisibleFiles[p] = k.before[p] /\ VisibleFiles'[p] = Target(k, p)
          /\ p \notin Changed(k.bundle) => VisibleFiles'[p] = VisibleFiles[p]
    BY <1>3, <1>4, <1>6, <1>7, NodesAreMarked DEF Behind, FileView
  <1>9. VisibleFiles' = [p \in Paths |-> VisibleFiles'[p]]
    BY <1>7 DEF FileView
  <1>10. QED
    BY <1>1, <1>2, <1>3, <1>5, <1>8, <1>9

\* A rollback that returns brought back what its prior record found.
LEMMA RollbackShows ==
  ASSUME Flat, RefInv, NEW c \in Callers, NEW k, k = call[c], Return(c),
         k.action = "rollback"
  PROVE  /\ k.prior \in ApplyRecords /\ ValidPrevious(k.prior) /\ k.prior \in records
         /\ k.before = k.prior.after /\ k.after = k.prior.before
         /\ k.prior.changed = Changed(k.bundle) /\ k.prior.before \in Snapshots
         /\ \A p \in Paths : k.prior.before[p] # Null <=> p \in Changed(k.bundle)
         /\ \A p \in Changed(k.bundle) : Target(k, p) = k.prior.before[p]
  <1>1. /\ k \in Calls /\ CallOK(k) /\ Authorized(k) /\ Running(c)
        /\ WriteSet(k) = Changed(k.bundle)
        /\ \A p \in Paths :
             k.after[p] = IF p \in Changed(k.bundle) THEN Target(k, p) ELSE Null
    BY ReturnShows
  <1>2. /\ k.prior \in ApplyRecords /\ ValidPrevious(k.prior) /\ k.prior \in records
        /\ k.before = k.prior.after /\ k.prior.before \in Snapshots
        /\ k.prior.changed = Changed(k.bundle)
    BY <1>1 DEF CallOK, Authorized, RefInv, PriorReturned, ApplyRecords, RecordsWithPrior
  <1>3. \A p \in Paths : k.prior.before[p] # Null <=> p \in Changed(k.bundle)
    BY <1>1 DEF WriteSet, Covered
  <1>4. \A p \in Changed(k.bundle) : Target(k, p) = k.prior.before[p]
    BY DEF Target
  <1>5. k.after = k.prior.before
    <2>1. \A p \in Paths : k.after[p] = k.prior.before[p]
      BY <1>1, <1>3, <1>4
    <2>2. k.after \in Snapshots
      BY <1>1 DEF Calls
    <2>3. QED
      BY <1>2, <2>1, <2>2 DEF Snapshots
  <1>6. QED
    BY <1>2, <1>3, <1>4, <1>5

\* The return of an executed call is the step of UndoLog that applies or undoes a plan.
LEMMA ReturnImplements ==
  ASSUME Flat, RefInv, NEW c \in Callers, Return(c)
  PROVE  Undoable!Next \/ UNCHANGED Undoable!vars
  <1> DEFINE k == call[c]
             v == IF k.action = "rollback" /\ k.after # k.prior.before
                  THEN Verdict("stop", "conflict_detected") ELSE k.verdict
             r == RecordOf(k, v, TRUE, k.after)
             plan == PlanOf(k.bundle)
  <1>1. k \in Calls /\ k.action \in Actions
    BY ReturnShows DEF Calls
  <1>2. records' = records \cup {r}
    BY DEF Return
  <1>3. /\ k.verdict.decision = "continue" /\ k.before \in Snapshots
        /\ Covered(k.before) = Changed(k.bundle)
    BY ReturnShows
  <1>4. \A p \in Paths :
          k.after[p] = IF p \in Changed(k.bundle) THEN Target(k, p) ELSE Null
    BY ReturnShows
  <1>5. \A p \in Paths :
          /\ p \in Changed(k.bundle) =>
               VisibleFiles[p] = k.before[p] /\ VisibleFiles'[p] = Target(k, p)
          /\ p \notin Changed(k.bundle) => VisibleFiles'[p] = VisibleFiles[p]
    BY ReturnShows
  <1>6. VisibleFiles' = [p \in Paths |-> VisibleFiles'[p]]
    BY ReturnShows
  <1>7. r.action = k.action /\ r.verdict = v /\ r.prior = k.prior
         /\ EntryOf(r) = [before |-> k.before, after |-> k.after]
    BY DEF RecordOf, EntryOf
  <1>8. CASE k.action = "apply"
    <2>1. ValidPrevious(r) /\ ~r.restored
      BY <1>3, <1>7, <1>8 DEF ValidPrevious, RecordOf
    <2>2. Entries' = Entries \cup {EntryOf(r)} /\ Undone' = Undone
      BY <1>2, <2>1, LogGrows
    <2>3. k.after = plan
      <3>1. \A p \in Paths : k.after[p] = plan[p]
        BY <1>1, <1>4, <1>8, PlanIsTarget
      <3>2. k.after \in Snapshots
        BY <1>1 DEF Calls
      <3>3. QED
        BY <3>1, <3>2 DEF PlanOf, Snapshots
    <2>4. Undoable!Under(plan) = k.before
      <3>1. \A p \in Paths : plan[p] # Null => VisibleFiles[p] = k.before[p]
        BY <1>1, <1>5, <1>8, PlanIsTarget
      <3>2. \A p \in Paths : plan[p] = Null => k.before[p] = Null
        BY <1>1, <1>3, <1>8, PlanIsTarget DEF Covered
      <3>3. QED
        BY <1>3, <3>1, <3>2, UnderCaptured
    <2>5. VisibleFiles' = Undoable!Overlay(plan)
      <3>1. \A p \in Paths :
              VisibleFiles'[p] = IF plan[p] # Null THEN plan[p] ELSE VisibleFiles[p]
        BY <1>1, <1>5, <1>8, PlanIsTarget
      <3>2. QED
        BY <1>6, <3>1 DEF Undoable!Overlay
    <2>6. Undoable!Apply(plan)
      BY <1>7, <2>2, <2>3, <2>4, <2>5 DEF Undoable!Apply
    <2>7. plan \in {PlanOf(b) : b \in Bundles}
      BY <1>1 DEF Calls
    <2>8. QED
      BY <2>6, <2>7 DEF Undoable!Next
  <1>9. CASE k.action = "rollback"
    <2> DEFINE entry == EntryOf(k.prior)
    <2>1. /\ k.prior \in ApplyRecords /\ ValidPrevious(k.prior) /\ k.prior \in records
          /\ k.before = k.prior.after /\ k.after = k.prior.before
          /\ \A p \in Paths : k.prior.before[p] # Null <=> p \in Changed(k.bundle)
          /\ \A p \in Changed(k.bundle) : Target(k, p) = k.prior.before[p]
      BY <1>9, RollbackShows
    <2>2. entry \in Entries
      BY <2>1 DEF Entries
    <2>3. ~ValidPrevious(r) /\ r.restored
      BY <1>7, <1>9, <2>1 DEF ValidPrevious, RecordOf
    <2>4. Entries' = Entries /\ Undone' = Undone \cup {entry}
      BY <1>2, <1>7, <2>3, LogGrows
    <2>5. Undoable!Under(entry.after) = entry.after
      <3>1. \A p \in Paths : k.before[p] # Null => VisibleFiles[p] = k.before[p]
        BY <1>3, <1>5 DEF Covered
      <3>2. Undoable!Under(k.before) = k.before
        BY <1>3, <3>1, UnderCaptured
      <3>3. QED
        BY <2>1, <3>2 DEF EntryOf
    <2>6. VisibleFiles' = Undoable!Overlay(entry.before)
      <3>1. \A p \in Paths :
              VisibleFiles'[p] = IF k.prior.before[p] # Null THEN k.prior.before[p]
                                 ELSE VisibleFiles[p]
        BY <1>5, <2>1
      <3>2. VisibleFiles' = Undoable!Overlay(k.prior.before)
        BY <1>6, <3>1 DEF Undoable!Overlay
      <3>3. QED
        BY <3>2 DEF EntryOf
    <2>7. Undoable!Undo(entry)
      BY <2>4, <2>5, <2>6 DEF Undoable!Undo
    <2>8. QED
      BY <2>2, <2>7 DEF Undoable!Next
  <1>10. QED
    BY <1>1, <1>8, <1>9 DEF Actions

\* Between calls users change one file at a time, or remove a directory.
LEMMA UsersImplement ==
  ASSUME Flat, QuietInv, AllIdle, Users
  PROVE  Undoable!Next \/ UNCHANGED Undoable!vars
  <1>1. UNCHANGED <<call, records>> /\ ws \in FS!Workspaces
    BY DEF Users, Edit, RemoveDirectory, QuietInv, IInv, TypeOK
  <1>2. VisibleFiles = FileView(ws) /\ VisibleFiles' = FileView(ws')
    BY <1>1, NobodyWrites DEF AllIdle, Writes, Running
  <1>3. Entries' = Entries /\ Undone' = Undone
    BY <1>1 DEF Entries, Undone, EntryOf, ValidPrevious
  <1>4. CASE \E p \in Paths, e \in UserContents \cup {Absent} : Edit(p, e)
    <2>1. PICK p \in Paths, e \in UserContents \cup {Absent} : Edit(p, e)
      BY <1>4
    <2>2. ws' = [ws EXCEPT ![p] = e]
      BY <1>1, <2>1, FlatPut DEF Edit
    <2>3. e \in Entry /\ e # Dir
      BY InputsAssumption DEF Entry
    <2>4. FileView(ws') = [FileView(ws) EXCEPT ![p] = e]
      BY <1>1, <2>2, <2>3 DEF FileView, FS!Workspaces
    <2>5. Undoable!Edit(p, e)
      BY <1>2, <1>3, <2>4 DEF Undoable!Edit
    <2>6. QED
      BY <2>3, <2>5 DEF Undoable!Next
  <1>5. CASE \E p \in Paths : RemoveDirectory(p)
    <2>1. PICK p \in Paths : ws[p] = Dir /\ ws' = [ws EXCEPT ![p] = Absent]
      BY <1>5 DEF RemoveDirectory
    <2>2. FileView(ws') = FileView(ws)
      BY <1>1, <2>1 DEF FileView, FS!Workspaces
    <2>3. QED
      BY <1>2, <1>3, <2>2 DEF Undoable!vars
  <1>6. QED
    BY <1>4, <1>5 DEF Users

-----------------------------------------------------------------------------
(* The theorem.                                                            *)

\* A caller goes on with the prior record it has, or with one returned.
LEMMA PriorsReturned ==
  ASSUME TypeOK, PriorReturned, NEW c \in Callers, NEW k, Becomes(c, k),
         records \subseteq records',
         k # Idle /\ k.action = "rollback" => k.prior \in records
  PROVE  PriorReturned'
  BY DEF TypeOK, PriorReturned, Becomes, Running

\* A step ends a call, or goes on with it and returns nothing.
LEMMA StepGoesOn ==
  ASSUME TypeOK, NEW c \in Callers, NEW k, k = call[c], Step(c)
  PROVE  \/ Becomes(c, Idle)
         \/ \E m : /\ Becomes(c, m) /\ UNCHANGED records
                  /\ m.action = k.action /\ m.prior = k.prior /\ m.bundle = k.bundle
  <1> DEFINE Same(m) == m.action = k.action /\ m.prior = k.prior /\ m.bundle = k.bundle
  <1>1. Running(c) /\ k \in Calls
    BY DEF Step, Capture, Conclude, Write, Written, Return, Throw, TypeOK, Running
  <1>2. CASE Capture(c)
    <2>1. PICK p \in Paths :
            Becomes(c, IF k.phase = "capture"
                       THEN [k EXCEPT !.todo = @ \ {p}, !.before[p] = ws[p]]
                       ELSE [k EXCEPT !.todo = @ \ {p}, !.after[p] = ws[p]])
      BY <1>2 DEF Capture
    <2>2. /\ Same([k EXCEPT !.todo = @ \ {p}, !.before[p] = ws[p]])
          /\ Same([k EXCEPT !.todo = @ \ {p}, !.after[p] = ws[p]])
      BY <1>1 DEF Calls
    <2>3. UNCHANGED records
      BY <1>2 DEF Capture
    <2>4. QED
      BY <2>1, <2>2, <2>3
  <1>3. CASE Conclude(c)
    <2> DEFINE v == Decide(k.action, k.bundle, k.prior, k.opts, k.expected, k.before)
               w == [k EXCEPT !.phase = "write", !.todo = WriteSet(k), !.verdict = v]
    <2>1. (Becomes(c, w) /\ UNCHANGED records) \/ Becomes(c, Idle)
      BY <1>3 DEF Conclude
    <2>2. Same(w)
      BY <1>1 DEF Calls
    <2>3. QED
      BY <2>1, <2>2
  <1>4. CASE Write(c)
    <2>1. PICK p \in Paths : Becomes(c, [k EXCEPT !.todo = @ \ {p}])
      BY <1>4 DEF Write
    <2>2. Same([k EXCEPT !.todo = @ \ {p}])
      BY <1>1 DEF Calls
    <2>3. UNCHANGED records
      BY <1>4 DEF Write
    <2>4. QED
      BY <2>1, <2>2, <2>3
  <1>5. CASE Written(c)
    <2> DEFINE m == [k EXCEPT !.phase = "recapture", !.todo = Changed(k.bundle)]
    <2>1. Becomes(c, m) /\ UNCHANGED records
      BY <1>5 DEF Written
    <2>2. Same(m)
      BY <1>1 DEF Calls
    <2>3. QED
      BY <2>1, <2>2
  <1>6. CASE Return(c) \/ Throw(c)
    BY <1>6 DEF Return, Throw
  <1>7. QED
    BY <1>2, <1>3, <1>4, <1>5, <1>6 DEF Step

\* The prior record of a call stays one of the records returned.
LEMMA NextKeepsPriorReturned ==
  ASSUME RefInv, [QuietNext]_vars
  PROVE  PriorReturned'
  <1>1. TypeOK /\ PriorReturned
    BY DEF RefInv, QuietInv, IInv
  <1>2. ASSUME NEW c \in Callers, Begins(c)  PROVE PriorReturned'
    <2>1. \E k : Becomes(c, k) /\ (k.action = "rollback" => k.prior \in records)
      BY <1>2 DEF Begins, Begin
    <2>2. UNCHANGED records
      BY <1>2 DEF Begins, Begin
    <2>3. QED
      BY <1>1, <2>1, <2>2, PriorsReturned
  <1>3. ASSUME NEW c \in Callers, Step(c)  PROVE PriorReturned'
    <2> DEFINE k == call[c]
    <2>1. Running(c) /\ k \in Calls /\ (k.action = "rollback" => k.prior \in records)
      BY <1>1, <1>3 DEF Step, Capture, Conclude, Write, Written, Return, Throw,
         TypeOK, PriorReturned, Running
    <2>2. records \subseteq records'
      BY <1>3 DEF Step, Capture, Conclude, Write, Written, Return, Throw
    <2>3. \/ Becomes(c, Idle)
          \/ \E m : Becomes(c, m) /\ m.action = k.action /\ m.prior = k.prior
      BY <1>1, <1>3, StepGoesOn
    <2>4. QED
      BY <1>1, <2>1, <2>2, <2>3, PriorsReturned
  <1>4. CASE Users
    BY <1>1, <1>4 DEF Users, Edit, RemoveDirectory, PriorReturned, Running
  <1>5. CASE UNCHANGED vars
    BY <1>1, <1>5 DEF vars, PriorReturned, Running
  <1>6. QED
    BY <1>2, <1>3, <1>4, <1>5 DEF QuietNext

\* Initial states map to initial states of UndoLog.
LEMMA InitImplements == Init => RefInv /\ Undoable!Init
  <1> SUFFICES ASSUME Init  PROVE RefInv /\ Undoable!Init
    OBVIOUS
  <1>1. QuietInv
    BY InitQuietInv
  <1>2. \A c \in Callers : ~Running(c)
    BY DEF Init, Running, Idle
  <1>3. VisibleFiles \in [Paths -> Entry]
    BY <1>1, <1>2, NobodyWrites, FileViewIsEntries DEF Writes, QuietInv, IInv, TypeOK
  <1>4. Entries = {} /\ Undone = {}
    BY DEF Init, Entries, Undone
  <1>5. QED
    BY <1>1, <1>2, <1>3, <1>4 DEF RefInv, PriorReturned, Undoable!Init

\* Every step of the quiet setting is a step of UndoLog or a stutter.
LEMMA StepImplements ==
  ASSUME Flat, RefInv, [QuietNext]_vars
  PROVE  Undoable!Next \/ UNCHANGED Undoable!vars
  <1>1. QuietInv
    BY DEF RefInv
  <1>2. ASSUME NEW c \in Callers, Step(c)
        PROVE  Undoable!Next \/ UNCHANGED Undoable!vars
    BY <1>1, <1>2, CaptureUnseen, WrittenUnseen, WriteUnseen, ThrowUnseen,
       ConcludeImplements, ReturnImplements DEF Step
  <1>3. CASE UNCHANGED vars
    <2>1. VisibleFiles' = VisibleFiles /\ UNCHANGED records
      BY <1>3 DEF vars, VisibleFiles, Writing, FileView, Running
    <2>2. QED
      BY <2>1, Unseen
  <1>4. QED
    BY <1>1, <1>2, <1>3, BeginUnseen, UsersImplement DEF QuietNext

\* On trees in which no path of a bundle can lie below another, the controller
\* undisturbed changes files by whole bundles, keeps an entry of every apply and
\* undoes whole entries, only where they fit.
THEOREM Refinement == ASSUME Flat PROVE QuietSpec => ImplementsUndoLog
  <1>1. Init => RefInv /\ Undoable!Init
    BY InitImplements
  <1>2. RefInv /\ [QuietNext]_vars => RefInv'
    BY NextKeepsQuietInv, NextKeepsPriorReturned DEF RefInv
  <1>3. RefInv /\ [QuietNext]_vars => [Undoable!Next]_(Undoable!vars)
    BY StepImplements
  <1>4. QED
    BY <1>1, <1>2, <1>3, PTL DEF QuietSpec, ImplementsUndoLog, Undoable!Spec

-----------------------------------------------------------------------------
(* Applied at most once each, bundles that write leave records to go back   *)
(* with.                                                                   *)

\* Bundles that only write, each a content of its own that no user writes.
BundleContents == {b.content : b \in Bundles}
OwnContents ==
  /\ \A b \in Bundles, p \in Paths : b.edits[p] # "delete"
  /\ UserContents \cap BundleContents = {}
  /\ \A b, d \in Bundles : b.content = d.content => b.id = d.id

\* The records of what was applied and is not rolled back.
ExecutedApplies == {r \in records : r.action = "apply" /\ r.executed}
Live == {r \in ExecutedApplies : ~\E q \in records : q.restored /\ q.prior = r}

\* What r wrote at a path is what q found there.
Over(q, r) == \E p \in q.changed \cap r.changed : q.before[p] = r.after[p]

\* The files f are the layers of the records in L, one upon another: the content
\* of a bundle is there from a record, each record's layer is there or found by
\* another, which is of a record again, and no record lies over itself.
Layered(f, L) ==
  /\ \A p \in Paths : f[p] \in BundleContents =>
       \E r \in L : p \in r.changed /\ r.after[p] = f[p]
  /\ \A r \in L : \A p \in r.changed :
       f[p] = r.after[p] \/ \E q \in L : p \in q.changed /\ q.before[p] = r.after[p]
  /\ \A r \in L : \A p \in r.changed : r.before[p] \in BundleContents =>
       /\ f[p] # r.before[p]
       /\ \E q \in L : p \in q.changed /\ q.after[p] = r.before[p]
  /\ \A q, r \in L : \A p \in q.changed \cap r.changed :
       q.before[p] = r.before[p] /\ q.before[p] \in BundleContents => q = r
  /\ \A S \in SUBSET L : S # {} => \E r \in S : \A q \in S : ~Over(q, r)

\* A record whose contents are new is a layer on top.
LEMMA LayerAdded ==
  ASSUME NEW f, NEW g, NEW L, NEW r, Layered(f, L),
         r.changed \subseteq Paths,
         \A p \in r.changed : /\ r.before[p] = f[p] /\ g[p] = r.after[p]
                              /\ r.after[p] \in BundleContents,
         \A p \in Paths \ r.changed : g[p] = f[p],
         \A q \in L : q.changed \subseteq Paths,
         \A q \in L : \A p \in q.changed \cap r.changed : q.after[p] # r.after[p]
  PROVE  Layered(g, L \cup {r})
  <1> DEFINE M == L \cup {r}
  <1>1. ASSUME NEW p \in r.changed, f[p] = r.after[p]  PROVE FALSE
    <2>1. \E q \in L : p \in q.changed /\ q.after[p] = f[p]
      BY <1>1 DEF Layered
    <2>2. QED
      BY <1>1, <2>1
  <1>2. ASSUME NEW q \in L, NEW p \in q.changed \cap r.changed, q.before[p] = r.after[p]
        PROVE  FALSE
    <2>1. \E s \in L : p \in s.changed /\ s.after[p] = q.before[p]
      BY <1>2 DEF Layered
    <2>2. QED
      BY <1>2, <2>1
  <1>3. ASSUME NEW p \in Paths, g[p] \in BundleContents
        PROVE  \E q \in M : p \in q.changed /\ q.after[p] = g[p]
    <2>1. CASE p \in r.changed
      BY <2>1
    <2>2. CASE p \notin r.changed
      <3>1. \E q \in L : p \in q.changed /\ q.after[p] = f[p]
        BY <1>3, <2>2 DEF Layered
      <3>2. QED
        BY <2>2, <3>1
    <2>3. QED
      BY <2>1, <2>2
  <1>4. ASSUME NEW q \in M, NEW p \in q.changed
        PROVE  g[p] = q.after[p] \/ \E s \in M : p \in s.changed /\ s.before[p] = q.after[p]
    <2>1. CASE q = r
      BY <2>1
    <2>2. CASE q # r
      <3>1. f[p] = q.after[p] \/ \E s \in L : p \in s.changed /\ s.before[p] = q.after[p]
        BY <2>2 DEF Layered
      <3>2. p \in Paths
        BY <2>2
      <3>3. p \notin r.changed => g[p] = f[p]
        BY <3>2
      <3>4. p \in r.changed => r.before[p] = f[p]
        OBVIOUS
      <3>5. r \in M /\ L \subseteq M
        OBVIOUS
      <3>6. QED
        BY <3>1, <3>3, <3>4, <3>5
    <2>3. QED
      BY <2>1, <2>2
  <1>5. \A q \in M : \A p \in q.changed : q.before[p] \in BundleContents =>
          /\ g[p] # q.before[p]
          /\ \E s \in M : p \in s.changed /\ s.after[p] = q.before[p]
    BY <1>1, <1>2 DEF Layered
  <1>6. ASSUME NEW q \in M, NEW s \in M, NEW p \in q.changed \cap s.changed,
               q.before[p] = s.before[p], q.before[p] \in BundleContents
        PROVE  q = s
    <2>1. q \in L /\ s \in L => q = s
      BY <1>6 DEF Layered
    <2>2. \A t \in L : p \in t.changed /\ t.before[p] \in BundleContents => f[p] # t.before[p]
      BY DEF Layered
    <2>3. QED
      BY <1>6, <2>1, <2>2
  <1>7. ASSUME NEW S \in SUBSET M, S # {}
        PROVE  \E q \in S : \A s \in S : ~Over(s, q)
    <2>1. CASE r \in S
      <3>1. \A s \in S : ~Over(s, r)
        BY <1>1, <1>2 DEF Over
      <3>2. QED
        BY <2>1, <3>1
    <2>2. CASE r \notin S
      BY <1>7, <2>2 DEF Layered
    <2>3. QED
      BY <2>1, <2>2
  <1>8. QED
    BY <1>3, <1>4, <1>5, <1>6, <1>7 DEF Layered

\* A record that is what is there is a layer that can be taken off.
LEMMA LayerRemoved ==
  ASSUME NEW f, NEW g, NEW L, NEW r \in L, Layered(f, L),
         \A p \in r.changed : f[p] = r.after[p] /\ g[p] = r.before[p],
         \A p \in Paths \ r.changed : g[p] = f[p],
         \A q \in L : q.changed \subseteq Paths,
         \A q \in L : \A p \in q.changed \cap r.changed : q.after[p] = r.after[p] => q = r,
         \A p \in r.changed : r.after[p] \in BundleContents
  PROVE  Layered(g, L \ {r})
  <1> DEFINE M == L \ {r}
  <1>1. \A p \in r.changed : r.before[p] # r.after[p]
    <2>1. {r} \in SUBSET L /\ {r} # {}
      OBVIOUS
    <2>2. \E q \in {r} : \A s \in {r} : ~Over(s, q)
      BY <2>1 DEF Layered
    <2>3. ~Over(r, r)
      BY <2>2
    <2>4. QED
      BY <2>3 DEF Over
  <1>2. ASSUME NEW q \in M, NEW p \in q.changed \cap r.changed, q.before[p] = r.after[p]
        PROVE  FALSE
    <2>1. f[p] # q.before[p]
      BY <1>2 DEF Layered
    <2>2. QED
      BY <1>2, <2>1
  <1>3. \A p \in Paths : g[p] \in BundleContents =>
          \E q \in M : p \in q.changed /\ q.after[p] = g[p]
    BY <1>1 DEF Layered
  <1>4. ASSUME NEW q \in M, NEW p \in q.changed
        PROVE  g[p] = q.after[p] \/ \E s \in M : p \in s.changed /\ s.before[p] = q.after[p]
    <2>1. f[p] = q.after[p] \/ \E s \in L : p \in s.changed /\ s.before[p] = q.after[p]
      BY DEF Layered
    <2>2. p \in r.changed => f[p] # q.after[p]
      BY <1>4
    <2>3. f[p] = q.after[p] => g[p] = q.after[p]
      BY <2>2
    <2>4. ASSUME NEW s \in L, p \in s.changed, s.before[p] = q.after[p], s = r
          PROVE  g[p] = q.after[p]
      BY <2>4
    <2>5. QED
      BY <2>1, <2>3, <2>4
  <1>5. ASSUME NEW q \in M, NEW p \in q.changed, q.before[p] \in BundleContents
        PROVE  /\ g[p] # q.before[p]
               /\ \E s \in M : p \in s.changed /\ s.after[p] = q.before[p]
    <2>1. /\ f[p] # q.before[p]
          /\ \E s \in L : p \in s.changed /\ s.after[p] = q.before[p]
      BY <1>5 DEF Layered
    <2>2. p \in r.changed => r.before[p] # q.before[p]
      BY <1>5 DEF Layered
    <2>3. g[p] # q.before[p]
      BY <2>1, <2>2
    <2>4. QED
      BY <1>2, <2>1, <2>3
  <1>6. \A q, s \in M : \A p \in q.changed \cap s.changed :
          q.before[p] = s.before[p] /\ q.before[p] \in BundleContents => q = s
    BY DEF Layered
  <1>7. \A S \in SUBSET M : S # {} => \E q \in S : \A s \in S : ~Over(s, q)
    BY DEF Layered
  <1>8. QED
    BY <1>3, <1>4, <1>5, <1>6, <1>7 DEF Layered

\* What the records tell of what was applied: an executed apply is of a bundle,
\* and the only one of its id; a preview changes nothing; what was undone was
\* returned; a call under way does not apply again.
AppliesAreOfBundles ==
  \A r \in ExecutedApplies : \E b \in Bundles :
    r.bundle = b.id /\ \A p \in r.changed : r.after[p] = b.content
AppliedOnce == \A r, q \in ExecutedApplies : r.bundle = q.bundle => r = q
PreviewsChangeNothing ==
  \A r \in records : r.action = "apply" /\ ~r.executed => r.before = r.after
UndoneReturned == \A q \in records : q.restored => q.prior \in records
AppliesAreNew ==
  \A c \in Callers :
    Running(c) /\ call[c].action = "apply" => ~Applied(call[c].bundle)

RecordsTell ==
  AppliesAreOfBundles /\ AppliedOnce /\ PreviewsChangeNothing /\ UndoneReturned

\* The inductive invariant of bundles applied at most once.
OnceInv == RefInv /\ RecordsTell /\ AppliesAreNew /\ Layered(VisibleFiles, Live)

\* The layer of a record is told from all others by any path of it.
LEMMA LayersDiffer ==
  ASSUME OwnContents, AppliesAreOfBundles, AppliedOnce,
         NEW q \in ExecutedApplies, NEW r \in ExecutedApplies,
         NEW p \in q.changed \cap r.changed, q.after[p] = r.after[p]
  PROVE  q = r
  <1>1. PICK b \in Bundles : q.bundle = b.id /\ q.after[p] = b.content
    BY DEF AppliesAreOfBundles
  <1>2. PICK d \in Bundles : r.bundle = d.id /\ r.after[p] = d.content
    BY DEF AppliesAreOfBundles
  <1>3. b.id = d.id
    BY <1>1, <1>2 DEF OwnContents
  <1>4. QED
    BY <1>1, <1>2, <1>3 DEF AppliedOnce

\* A record that is no executed apply and undoes none leaves the layers.
LEMMA NothingApplied ==
  ASSUME RecordsTell, NEW r, records' = records \cup {r},
         ~(r.action = "apply" /\ r.executed),
         r.action = "apply" => r.before = r.after,
         r.restored => r.prior \in records /\ r.prior \notin Live
  PROVE  RecordsTell' /\ Live' = Live
  <1>1. ExecutedApplies' = ExecutedApplies
    BY DEF ExecutedApplies
  <1>2. Live' = Live
    BY <1>1 DEF Live
  <1>3. AppliesAreOfBundles' /\ AppliedOnce'
    BY <1>1 DEF RecordsTell, AppliesAreOfBundles, AppliedOnce
  <1>4. PreviewsChangeNothing' /\ UndoneReturned'
    BY DEF RecordsTell, PreviewsChangeNothing, UndoneReturned
  <1>5. QED
    BY <1>2, <1>3, <1>4 DEF RecordsTell

\* Without a new record, what the records tell stays.
LEMMA NothingReturned ==
  ASSUME RecordsTell, UNCHANGED records
  PROVE  RecordsTell' /\ Live' = Live
  BY DEF RecordsTell, AppliesAreOfBundles, AppliedOnce, PreviewsChangeNothing,
     UndoneReturned, Live, ExecutedApplies

\* A decision without a write returns a preview or a refusal.
LEMMA ConcludeKeepsLayers ==
  ASSUME Flat, OnceInv, NEW c \in Callers, Conclude(c)
  PROVE  RecordsTell' /\ Layered(VisibleFiles', Live')
  <1> DEFINE k == call[c]
             v == Decide(k.action, k.bundle, k.prior, k.opts, k.expected, k.before)
             r == RecordOf(k, v, FALSE, k.before)
  <1>1. VisibleFiles' = VisibleFiles
    BY ConcludeShowsNothing DEF OnceInv, RefInv
  <1>2. CASE UNCHANGED records
    BY <1>1, <1>2, NothingReturned DEF OnceInv
  <1>3. CASE records' = records \cup {r}
    <2>1. r.executed = FALSE /\ r.restored = FALSE /\ r.before = r.after
      BY DEF RecordOf
    <2>2. RecordsTell' /\ Live' = Live
      BY <1>3, <2>1, NothingApplied DEF OnceInv
    <2>3. QED
      BY <1>1, <2>2 DEF OnceInv
  <1>4. QED
    BY <1>2, <1>3 DEF Conclude

\* An executed apply puts a layer on top, a rollback takes its own off.
LEMMA ReturnKeepsLayers ==
  ASSUME Flat, OwnContents, OnceInv, NEW c \in Callers, Return(c)
  PROVE  RecordsTell' /\ Layered(VisibleFiles', Live')
  <1> DEFINE k == call[c]
             v == IF k.action = "rollback" /\ k.after # k.prior.before
                  THEN Verdict("stop", "conflict_detected") ELSE k.verdict
             r == RecordOf(k, v, TRUE, k.after)
             x == k.prior
  <1>1. /\ k \in Calls /\ k.action \in Actions /\ k.bundle \in Bundles /\ Running(c)
        /\ Changed(k.bundle) \subseteq Paths
    BY ReturnShows DEF Calls, Changed, OnceInv
  <1>2. /\ \A p \in Paths :
             k.after[p] = IF p \in Changed(k.bundle) THEN Target(k, p) ELSE Null
        /\ \A p \in Paths :
             /\ p \in Changed(k.bundle) =>
                  VisibleFiles[p] = k.before[p] /\ VisibleFiles'[p] = Target(k, p)
             /\ p \notin Changed(k.bundle) => VisibleFiles'[p] = VisibleFiles[p]
        /\ VisibleFiles' = [p \in Paths |-> VisibleFiles'[p]]
    BY ReturnShows DEF OnceInv
  <1>3. records' = records \cup {r}
    BY DEF Return
  <1>4. /\ r.action = k.action /\ r.executed = TRUE /\ r.changed = Changed(k.bundle)
        /\ r.before = k.before /\ r.after = k.after /\ r.prior = k.prior
        /\ r.bundle = k.bundle.id
        /\ r.restored = (k.action = "rollback" /\ k.after = k.prior.before)
    BY DEF RecordOf
  <1>5. /\ \A q \in records : q.changed \subseteq Paths
        /\ \A q \in Live : q.changed \subseteq Paths
    <2>1. \A q \in records : q.changed \subseteq Paths
      BY DEF OnceInv, RefInv, QuietInv, IInv, TypeOK, ApplyRecords, RollbackRecords,
         RecordsWithPrior
    <2>2. QED
      BY <2>1 DEF Live, ExecutedApplies
  <1>6. RecordsTell /\ AppliesAreOfBundles /\ AppliedOnce /\ Layered(VisibleFiles, Live)
    BY DEF OnceInv, RecordsTell
  <1> HIDE DEF r
  <1>7. CASE k.action = "apply"
    <2>1. \A q \in ExecutedApplies : q.bundle # k.bundle.id
      BY <1>1, <1>7 DEF OnceInv, AppliesAreNew, Applied, ExecutedApplies
    <2>2. \A p \in Changed(k.bundle) : Target(k, p) = k.bundle.content
      BY <1>1, <1>7 DEF Target, OwnContents
    <2>3. \A p \in r.changed : r.after[p] = k.bundle.content
      BY <1>1, <1>2, <1>4, <2>2
    <2>4. ExecutedApplies' = ExecutedApplies \cup {r}
      BY <1>3, <1>4, <1>7 DEF ExecutedApplies
    <2>5. r \notin records
      BY <1>4, <1>7, <2>1 DEF ExecutedApplies
    <2>6. Live' = Live \cup {r}
      <3>1. ~r.restored
        BY <1>4, <1>7
      <3>2. \A q \in records' : q.restored => q \in records /\ q.prior # r
        BY <1>3, <1>6, <2>5, <3>1 DEF RecordsTell, UndoneReturned
      <3>3. QED
        BY <1>3, <2>4, <3>2 DEF Live
    <2>7. RecordsTell'
      <3>1. AppliesAreOfBundles'
        BY <1>1, <1>4, <1>6, <2>3, <2>4 DEF AppliesAreOfBundles
      <3>2. AppliedOnce'
        BY <1>4, <1>6, <2>1, <2>4 DEF AppliedOnce
      <3>3. PreviewsChangeNothing' /\ UndoneReturned'
        BY <1>3, <1>4, <1>6, <1>7 DEF RecordsTell, PreviewsChangeNothing, UndoneReturned
      <3>4. QED
        BY <3>1, <3>2, <3>3 DEF RecordsTell
    <2>8. ASSUME NEW q \in Live, NEW p \in q.changed \cap r.changed, q.after[p] = r.after[p]
          PROVE  FALSE
      <3>1. PICK b \in Bundles : q.bundle = b.id /\ q.after[p] = b.content
        BY <1>6 DEF AppliesAreOfBundles, Live
      <3>2. b.id = k.bundle.id
        BY <1>1, <2>3, <2>8, <3>1 DEF OwnContents
      <3>3. QED
        BY <2>1, <3>1, <3>2 DEF Live
    <2>9. \A p \in r.changed : /\ r.before[p] = VisibleFiles[p]
                               /\ VisibleFiles'[p] = r.after[p]
                               /\ r.after[p] \in BundleContents
      BY <1>1, <1>2, <1>4, <2>2, <2>3 DEF BundleContents
    <2>10. \A p \in Paths \ r.changed : VisibleFiles'[p] = VisibleFiles[p]
      BY <1>2, <1>4
    <2>11. Layered(VisibleFiles', Live \cup {r})
      BY <1>1, <1>4, <1>5, <1>6, <2>8, <2>9, <2>10, LayerAdded
    <2>12. QED
      BY <2>6, <2>7, <2>11
  <1>8. CASE k.action = "rollback"
    <2>1. /\ x \in ApplyRecords /\ x \in records /\ k.before = x.after
          /\ k.after = x.before /\ x.changed = Changed(k.bundle)
          /\ \A p \in Changed(k.bundle) : Target(k, p) = x.before[p]
      BY <1>8, RollbackShows DEF OnceInv
    <2>2. r.restored /\ r.prior = x /\ r.action = "rollback"
      BY <1>4, <1>8, <2>1
    <2>3. \A p \in x.changed : VisibleFiles[p] = x.after[p] /\ VisibleFiles'[p] = x.before[p]
      BY <1>1, <1>2, <2>1
    <2>4. \A p \in Paths \ x.changed : VisibleFiles'[p] = VisibleFiles[p]
      BY <1>2, <2>1
    <2>5. CASE x \in Live
      <3>1. \A p \in x.changed : x.after[p] \in BundleContents
        BY <1>6, <2>5 DEF Live, AppliesAreOfBundles, BundleContents
      <3>2. \A q \in Live : \A p \in q.changed \cap x.changed : q.after[p] = x.after[p] => q = x
        BY <1>6, <2>5, LayersDiffer DEF Live
      <3>3. Layered(VisibleFiles', Live \ {x})
        BY <1>5, <1>6, <2>3, <2>4, <2>5, <3>1, <3>2, LayerRemoved
      <3>4. ExecutedApplies' = ExecutedApplies
        BY <1>3, <2>2 DEF ExecutedApplies
      <3>5. Live' = Live \ {x}
        BY <1>3, <2>2, <3>4 DEF Live
      <3>6. AppliesAreOfBundles' /\ AppliedOnce'
        BY <1>6, <3>4 DEF AppliesAreOfBundles, AppliedOnce
      <3>7. PreviewsChangeNothing' /\ UndoneReturned'
        BY <1>3, <1>6, <2>1, <2>2 DEF RecordsTell, PreviewsChangeNothing, UndoneReturned
      <3>8. QED
        BY <3>3, <3>5, <3>6, <3>7 DEF RecordsTell
    <2>6. CASE x \notin Live
      <3>1. RecordsTell' /\ Live' = Live
        BY <1>3, <1>6, <2>1, <2>2, <2>6, NothingApplied
      <3>2. \A p \in x.changed : x.before[p] = x.after[p]
        <4>1. CASE x.executed
          <5>1. x \in ExecutedApplies
            BY <2>1, <4>1 DEF ExecutedApplies, ApplyRecords
          <5>2. ASSUME NEW p \in x.changed  PROVE FALSE
            <6>1. VisibleFiles[p] \in BundleContents /\ p \in Paths
              BY <1>5, <1>6, <2>1, <2>3, <5>1, <5>2 DEF AppliesAreOfBundles, BundleContents
            <6>2. PICK q \in Live : p \in q.changed /\ q.after[p] = VisibleFiles[p]
              BY <1>6, <6>1 DEF Layered
            <6>3. q = x
              BY <1>6, <2>3, <5>1, <5>2, <6>2, LayersDiffer DEF Live
            <6>4. QED
              BY <2>6, <6>3
          <5>3. QED
            BY <5>2
        <4>2. CASE ~x.executed
          BY <1>6, <2>1, <4>2 DEF RecordsTell, PreviewsChangeNothing, ApplyRecords
        <4>3. QED
          BY <4>1, <4>2
      <3>3. \A p \in Paths : VisibleFiles'[p] = VisibleFiles[p]
        BY <2>3, <2>4, <3>2
      <3>4. VisibleFiles' = VisibleFiles
        BY <1>2, <3>3 DEF VisibleFiles
      <3>5. QED
        BY <1>6, <3>1, <3>4
    <2>7. QED
      BY <2>5, <2>6
  <1>9. QED
    BY <1>1, <1>7, <1>8 DEF Actions

\* A call that goes on is still one that applies what was not applied.
LEMMA NextKeepsAppliesNew ==
  ASSUME OnceInv, OnceNext
  PROVE  AppliesAreNew'
  <1>1. TypeOK /\ AppliesAreNew /\ AtMostOne
    BY DEF OnceInv, RefInv, QuietInv, IInv
  <1>2. CASE /\ \E c \in Callers : Begins(c)
             /\ \A c \in Callers : call'[c] # Idle =>
                  ~(call'[c].action = "apply" /\ Applied(call'[c].bundle))
    <2>1. UNCHANGED records
      BY <1>2 DEF Begins, Begin
    <2>2. QED
      BY <1>2, <2>1 DEF AppliesAreNew, Applied, Running
  <1>3. ASSUME NEW c \in Callers, Step(c)  PROVE AppliesAreNew'
    <2>1. Running(c) /\ \A d \in Callers : d # c => ~Running(d)
      BY <1>1, <1>3 DEF Step, Capture, Conclude, Write, Written, Return, Throw, AtMostOne
    <2>2. CASE Becomes(c, Idle)
      BY <1>1, <2>1, <2>2 DEF Becomes, TypeOK, AppliesAreNew, Running
    <2>3. CASE ~Becomes(c, Idle)
      <3>1. PICK m : /\ Becomes(c, m) /\ UNCHANGED records
                     /\ m.action = call[c].action /\ m.bundle = call[c].bundle
        BY <1>1, <1>3, <2>3, StepGoesOn
      <3>2. call'[c] = m /\ \A d \in Callers : d # c => ~Running(d)'
        BY <1>1, <2>1, <3>1 DEF Becomes, TypeOK, Running
      <3>3. m.action = "apply" => ~Applied(m.bundle)
        BY <1>1, <2>1, <3>1 DEF AppliesAreNew
      <3>4. QED
        BY <3>1, <3>2, <3>3 DEF AppliesAreNew, Applied
    <2>4. QED
      BY <2>2, <2>3
  <1>4. QED
    BY <1>2, <1>3 DEF OnceNext

LEMMA InitOnceInv ==
  ASSUME OwnContents, Init
  PROVE  OnceInv
  <1>1. RefInv
    BY InitImplements
  <1>2. records = {} /\ Live = {} /\ \A c \in Callers : ~Running(c)
    BY DEF Init, Live, ExecutedApplies, Running, Idle
  <1>3. RecordsTell /\ AppliesAreNew
    BY <1>2 DEF RecordsTell, AppliesAreOfBundles, AppliedOnce, PreviewsChangeNothing,
       UndoneReturned, ExecutedApplies, AppliesAreNew
  <1>4. \A p \in Paths : VisibleFiles[p] \notin BundleContents
    <2>1. VisibleFiles = FileView(ws)
      BY <1>2, NobodyWrites DEF Writes
    <2>2. BundleContents \subseteq Contents
      BY InputsAssumption DEF BundleContents, BundleType
    <2>3. \A p \in Paths : FileView(ws)[p] \in UserContents \cup {Absent}
      BY DEF Init, FileView
    <2>4. QED
      BY <2>1, <2>2, <2>3, MarksAssumption DEF OwnContents
  <1>5. Layered(VisibleFiles, Live)
    BY <1>2, <1>4 DEF Layered
  <1>6. QED
    BY <1>1, <1>3, <1>5 DEF OnceInv

LEMMA NextKeepsOnceInv ==
  ASSUME Flat, OwnContents, OnceInv, [OnceNext]_vars
  PROVE  OnceInv'
  <1>1. RefInv /\ QuietInv
    BY DEF OnceInv, RefInv
  <1>2. [QuietNext]_vars
    BY DEF OnceNext, QuietNext
  <1>3. RefInv'
    BY <1>1, <1>2, NextKeepsQuietInv, NextKeepsPriorReturned DEF RefInv
  <1>4. ASSUME UNCHANGED Undoable!vars, UNCHANGED records
        PROVE  RecordsTell' /\ Layered(VisibleFiles', Live')
    BY <1>4, NothingReturned DEF OnceInv, Undoable!vars
  <1>5. CASE UNCHANGED vars
    <2>1. VisibleFiles' = VisibleFiles /\ UNCHANGED records
      BY <1>5 DEF vars, VisibleFiles, Writing, FileView, Running
    <2>2. RecordsTell' /\ Layered(VisibleFiles', Live')
      BY <2>1, NothingReturned DEF OnceInv
    <2>3. AppliesAreNew'
      BY <1>5 DEF OnceInv, AppliesAreNew, Applied, Running, vars
    <2>4. QED
      BY <1>3, <2>2, <2>3 DEF OnceInv
  <1>6. ASSUME NEW c \in Callers, AllIdle, Begins(c)
        PROVE  RecordsTell' /\ Layered(VisibleFiles', Live')
    BY <1>1, <1>4, <1>6, BeginUnseen DEF Begins, Begin
  <1>7. ASSUME NEW c \in Callers, Step(c)
        PROVE  RecordsTell' /\ Layered(VisibleFiles', Live')
    <2>1. CASE Capture(c)
      BY <1>1, <1>4, <2>1, CaptureUnseen DEF Capture
    <2>2. CASE Conclude(c)
      BY <2>2, ConcludeKeepsLayers
    <2>3. CASE Write(c)
      BY <1>1, <1>4, <2>3, WriteUnseen DEF Write
    <2>4. CASE Written(c)
      BY <1>1, <1>4, <2>4, WrittenUnseen DEF Written
    <2>5. CASE Return(c)
      BY <2>5, ReturnKeepsLayers
    <2>6. CASE Throw(c)
      BY <1>1, <1>4, <2>6, ThrowUnseen DEF Throw
    <2>7. QED
      BY <1>7, <2>1, <2>2, <2>3, <2>4, <2>5, <2>6 DEF Step
  <1>8. CASE OnceNext
    <2>1. RecordsTell' /\ Layered(VisibleFiles', Live')
      BY <1>6, <1>7, <1>8 DEF OnceNext
    <2>2. AppliesAreNew'
      BY <1>8, NextKeepsAppliesNew
    <2>3. QED
      BY <1>3, <2>1, <2>2 DEF OnceInv
  <1>9. QED
    BY <1>5, <1>8

\* Where the content of a bundle is left, the layer that none lies over is there.
LEMMA LayersAdmitRollback ==
  ASSUME OnceInv
  PROVE  NeverStranded
  <1> SUFFICES ASSUME AllIdle, NEW p \in Paths, NEW b \in Bundles, ws[p] = b.content
               PROVE  \E r \in records : AdmitsRollback(r)
    BY DEF NeverStranded
  <1>1. VisibleFiles = FileView(ws)
    BY NobodyWrites DEF AllIdle, Writes
  <1>2. Layered(VisibleFiles, Live) /\ AppliesAreOfBundles /\ TypeOK
    BY DEF OnceInv, RecordsTell, RefInv, QuietInv, IInv
  <1>3. BundleContents \subseteq Contents
    BY InputsAssumption DEF BundleContents, BundleType
  <1>4. VisibleFiles[p] \in BundleContents
    <2>1. b.content \in BundleContents /\ b.content # Dir
      BY <1>3, InputsAssumption DEF BundleContents, Entry
    <2>2. QED
      BY <1>1, <2>1 DEF FileView
  <1>5. Live # {}
    BY <1>2, <1>4 DEF Layered
  <1>6. PICK r \in Live : \A q \in Live : ~Over(q, r)
    BY <1>2, <1>5 DEF Layered
  <1>7. r \in records /\ r.action = "apply" /\ r.executed
    BY <1>6 DEF Live, ExecutedApplies
  <1>8. ASSUME NEW s \in r.changed
        PROVE  ws[s] = r.after[s]
    <2>1. s \in Paths
      BY <1>2, <1>7 DEF TypeOK, ApplyRecords, RollbackRecords, RecordsWithPrior
    <2>2. VisibleFiles[s] = r.after[s]
      BY <1>2, <1>6 DEF Layered, Over
    <2>3. r.after[s] \in Contents
      BY <1>2, <1>3, <1>6 DEF AppliesAreOfBundles, BundleContents, Live
    <2>4. QED
      BY <1>1, <2>1, <2>2, <2>3, MarksAssumption DEF FileView
  <1>9. QED
    BY <1>7, <1>8 DEF AdmitsRollback

\* On a flat tree, with bundles that only write, each a content of its own, and
\* each applied at most once, the refusal to roll back over what is not the
\* after-state never leaves a bundle's content without a record that fits.
THEOREM SomeRecordFits == ASSUME Flat, OwnContents PROVE OnceSpec => []NeverStranded
  <1>1. Init => OnceInv
    BY InitOnceInv
  <1>2. OnceInv /\ [OnceNext]_vars => OnceInv'
    BY NextKeepsOnceInv
  <1>3. OnceInv => NeverStranded
    BY LayersAdmitRollback
  <1>4. QED
    BY <1>1, <1>2, <1>3, PTL DEF OnceSpec
=============================================================================
