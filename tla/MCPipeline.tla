----------------------------- MODULE MCPipeline -----------------------------
(* Values for the constants of Pipeline.                                     *)
EXTENDS Pipeline

At(path, confidence) == [path |-> path, confidence |-> confidence]
Does(path, operation) == [path |-> path, operation |-> operation]

\* What scoring finds: one clear target, a weak one, two that are as far
\* apart as the gap.
OneTarget == <<At("a", 9000), At("b", 5000)>>
Weak      == <<At("a", 4000), At("b", 3000)>>
AtTheGap  == <<At("a", 9000), At("b", 8000)>>

FoundEverything ==
  [t \in Trees |->
     [i \in Intents |->
        IF i = "remove a" THEN OneTarget
        ELSE IF t = "t1" THEN AtTheGap ELSE Weak]]
Words     ==
  [i \in Intents |-> IF i = "remove a" THEN "delete" ELSE "create"]

MapAs(min) == [min |-> min, gap |-> 1000, alternatives |-> 1]
OneMap     == {MapAs(6000)}

PlanAs(edits, files, hunks) ==
  [edits |-> edits, forbidden |-> Files \cap {"f"}, maxFileChanges |-> files, maxHunks |-> hunks]
ManyPlans ==
  {PlanAs(edits, 2, 2) :
     edits \in {Null, <<>>, <<Does("b", "delete"), Does("b", "create")>>,
                <<Does("f", "modify")>>, <<Does("..", "create")>>,
                <<Does("a", "delete"), Does("b", "modify"), Does("c", "create")>>}}
    \cup {PlanAs(<<Does("a", "modify"), Does("b", "create")>>, 2, hunks) : hunks \in 1..2}

Result(status, evidence) == [status |-> status, evidence |-> evidence]
Ran(results, sensitive)  ==
  [required |-> Checks, results |-> results, sensitive |-> sensitive]
AllPassed   == [c \in Checks |-> Result("pass", TRUE)]
ManyPatches ==
  {Ran(results, {}) :
     results \in [Checks -> {Result("pass", TRUE), Result("fail", TRUE),
                             Result("pass", FALSE), Null}]}
    \cup {Ran(AllPassed, {"a"})}

ManyBundles ==
  {b \in BundleOptions :
     \/ b.evidence /\ b.risks
     \/ b.rollback /\ b.instructions = "default"}
=============================================================================
