--------------------------- MODULE MCApplyRollback ---------------------------
(* Instances of ApplyRollback for TLC.                                     *)
EXTENDS ApplyRollback

MCContents     == {"u", "b1", "b2", "torn"}
MCUserContents == {"u"}

\* Two paths side by side, two paths of which one lies below the other, one.
TwoPaths    == 1..2
FlatAbove   == [p \in TwoPaths |-> {}]
NestedAbove == [p \in TwoPaths |-> IF p = 2 THEN {1} ELSE {}]
OnePath     == 1..1
OneAbove    == [p \in OnePath |-> {}]

Pair(e1, e2) == [p \in TwoPaths |-> IF p = 1 THEN e1 ELSE e2]
Only(e)      == [p \in OnePath |-> e]

-----------------------------------------------------------------------------
(* Bundles and options every gate lets through.                            *)

GoodBundle(id, c, edits) ==
  [id |-> id, edits |-> edits, content |-> c, outcome |-> Pass, readiness |-> Pass,
   checksComplete |-> TRUE, evidenceComplete |-> TRUE, allPassed |-> TRUE,
   rollback |-> [available |-> TRUE, strategy |-> "reverse_patch", digest |-> "d1"]]

FullOptions ==
  [execute |-> TRUE, allowAction |-> TRUE, capable |-> TRUE,
   approvalRequired |-> "default", approved |-> TRUE,
   blocked |-> {}, escalated |-> {}, requireGain |-> FALSE,
   benchmark |-> [present |-> FALSE, floorPreserved |-> TRUE, validGain |-> TRUE]]
DryRun == [FullOptions EXCEPT !.execute = FALSE]

B1 == GoodBundle("B1", "b1", Pair("modify", "create"))
B2 == GoodBundle("B2", "b2", Pair("none", "modify"))
B3 == GoodBundle("B3", "b1", Pair("delete", "create"))
B4 == GoodBundle("B4", "b2", Pair("none", "create"))
B5 == GoodBundle("B5", "b1", Only("modify"))

OnePathBundles  == {B5}
StackBundles    ==
  {GoodBundle("S1", "b1", Pair("modify", "none")),
   GoodBundle("S2", "b2", Pair("modify", "modify")),
   GoodBundle("S3", "b3", Pair("none", "modify"))}
StackContents   == {"u", "b1", "b2", "b3", "torn"}
OneFullOptions  == {FullOptions}
FullAndDryRun   == {FullOptions, DryRun}

-----------------------------------------------------------------------------
(* One flaw at a time in the bundle, one in the options: every gate speaks, *)
(* and every pair of gates meets.                                          *)

Flawed(b) ==
  {[b EXCEPT !.outcome = Verdict("escalate", "policy_blocked")],
   [b EXCEPT !.readiness = Verdict("stop", "bundle_incomplete")],
   [b EXCEPT !.checksComplete = FALSE],
   [b EXCEPT !.evidenceComplete = FALSE],
   [b EXCEPT !.allPassed = FALSE],
   [b EXCEPT !.rollback.available = FALSE],
   [b EXCEPT !.rollback.digest = "d2"],
   [b EXCEPT !.id = "B6"]}

NestedBundles == {B1, B2, B3, B4} \cup Flawed(B1)

FlawedOptions ==
  {FullOptions, DryRun,
   [FullOptions EXCEPT !.allowAction = FALSE],
   [FullOptions EXCEPT !.capable = FALSE],
   [FullOptions EXCEPT !.approved = FALSE],
   [FullOptions EXCEPT !.approved = FALSE, !.approvalRequired = "yes"],
   [FullOptions EXCEPT !.blocked = {1}],
   [FullOptions EXCEPT !.escalated = {1}],
   [FullOptions EXCEPT !.requireGain = TRUE],
   [FullOptions EXCEPT !.requireGain = TRUE, !.benchmark.present = TRUE,
                       !.benchmark.floorPreserved = FALSE],
   [FullOptions EXCEPT !.requireGain = TRUE, !.benchmark.present = TRUE,
                       !.benchmark.validGain = FALSE]}
=============================================================================
