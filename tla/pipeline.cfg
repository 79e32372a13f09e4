SPECIFICATION Spec
CONSTANTS
  Null = Null
  Runs = {"r1", "r2"}
  Minted = {"r2"}
  Trees = {"t1", "t2"}
  Intents = {"remove a", "new b"}
  Files = {"a", "b", "c", "f", ".."}
  Outside = {".."}
  Checks = {"test"}
  OperationOf <- Words
  Found <- FoundEverything
  MapOptionSets <- OneMap
  PlanOptionSets <- ManyPlans
  PatchOptionSets <- ManyPatches
  BundleOptionSets <- ManyBundles
  MaxOfEach = 2
  MaxArtifacts = 6
INVARIANTS TypeOK AdmittedIsOneChain AdmittedIsChecked ReadyIsReviewable RollbackUndoesEdits
CHECK_DEADLOCK FALSE
