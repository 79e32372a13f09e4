---------------------------- MODULE MCRuntimeRun ----------------------------
(* Values for the constants of RuntimeRun.                                   *)
EXTENDS RuntimeRun

Contract(minimum, requireAll, onFailure) ==
  [required |-> Checks, assertions |-> {"a1"}, optional |-> {"a2"},
   requireAll |-> requireAll, minimum |-> minimum, maxWarnings |-> 1,
   onFailure |-> onFailure, requireProfile |-> TRUE, fields |-> Fields]

All       == [num |-> 1, den |-> 1]
TwoThirds == [num |-> 2, den |-> 3]

\* The contract of no loader: nothing is required.
EmptyContract ==
  [required |-> {}, assertions |-> {}, optional |-> {}, requireAll |-> TRUE,
   minimum |-> All, maxWarnings |-> 0, onFailure |-> "stop",
   requireProfile |-> FALSE, fields |-> {}]

Says(c, passed) == [check |-> c, passed |-> passed]

\* Results of two checks, some of them given twice.
ResultLists ==
  {<<>>, <<Says("t1", TRUE)>>, <<Says("t1", TRUE), Says("s1", TRUE)>>,
   <<Says("t1", TRUE), Says("s1", FALSE)>>,
   <<Says("t1", FALSE), Says("s1", FALSE)>>,
   <<Says("t1", FALSE), Says("s1", TRUE), Says("t1", TRUE)>>,
   <<Says("t1", TRUE), Says("s1", TRUE), Says("t1", FALSE)>>,
   <<Says("s1", FALSE), Says("s1", TRUE), Says("t1", FALSE)>>}

Evidence(k, profile, status, feedback) ==
  [contract |-> k, profile |-> profile, status |-> status, feedback |-> feedback]
Status(results, warnings) == [results |-> results, warnings |-> warnings]

Contracts == {Contract(TwoThirds, FALSE, "stop"), Contract(All, TRUE, "escalate"), EmptyContract}

Statuses == {Null} \cup {Status(l, w) : l \in ResultLists, w \in 1..2}

\* Everything that can be said of the checks, with every policy profile or without a
\* section of the FeedbackTensor.
EveryEvidence ==
  {Evidence(k, profile, status, Fields) :
     k \in Contracts \ {EmptyContract}, status \in Statuses,
     profile \in {Null, {"a2"}, {"a1"}, {"a1", "a2"}}}
    \cup {Evidence(k, {"a1", "a2"}, status, {"confidence"}) :
            k \in Contracts, status \in Statuses}

Input(ir, gate, evidence) == [ir |-> ir, gate |-> gate, evidence |-> evidence]

Passing   == Evidence(Contract(TwoThirds, FALSE, "stop"), {"a1"},
                      Status(<<Says("t1", TRUE), Says("s1", FALSE)>>, 1), Fields)
Escalated == [Passing EXCEPT !.contract = Contract(All, FALSE, "escalate")]

\* Where the gate is not asked.
OtherEnds ==
  {Input("no_object", "absent", Null), Input("no_version", "given", Passing),
   Input("no_goal", "absent", Null), Input("valid", "malformed", Null),
   Input("valid", "absent", Null)}

GateInputs == {Input("valid", "given", e) : e \in EveryEvidence} \cup OtherEnds

Paths(sinks)  == [s \in Sinks |-> s \in sinks]
Invocation(i, sinks) == [input |-> i, options |-> Paths(sinks)]

\* One invocation that passes and one that is blocked, told to some files.
Told(sinks) ==
  {Invocation(Input("valid", "given", e), sinks) : e \in {Passing, Escalated}}
ToldToAll == Told(Sinks \ {"report"})

\* One caller has all evidence, told to nobody, and what the others have.
OneTriesEverything ==
  LET one == CHOOSE c \in Callers : TRUE
  IN [c \in Callers |->
        IF c = one
        THEN ToldToAll \cup Told({"feedback", "report"})
               \cup {Invocation(i, {}) : i \in GateInputs}
        ELSE ToldToAll]

OnlyTold == [c \in Callers |-> ToldToAll]
=============================================================================
