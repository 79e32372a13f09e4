------------------------------ MODULE PureRun ------------------------------
(* What an invocation of the runtime promises, whatever is emitted: its      *)
(* caller gets one answer, which depends on its input alone, or none where   *)
(* the process dies.                                                         *)
EXTENDS Naturals

CONSTANTS
  Inputs,
  AnswerTo,    \* the answer to each input
  MaxCalls     \* bound: invocations of a behaviour

VARIABLES
  begun,      \* how many invocations there were; the last one's id
  pending,    \* the invocations under way
  answered    \* the answers

vars == <<begun, pending, answered>>

Init == begun = 0 /\ pending = {} /\ answered = {}

Invoke(i) ==
  /\ begun < MaxCalls
  /\ begun' = begun + 1
  /\ pending' = pending \cup {[id |-> begun', input |-> i]}
  /\ UNCHANGED answered

Answer(p) ==
  /\ pending' = pending \ {p}
  /\ answered' = answered \cup {[id |-> p.id, input |-> p.input,
                                 outcome |-> AnswerTo[p.input]]}
  /\ UNCHANGED begun

Lose(p) ==
  /\ pending' = pending \ {p}
  /\ UNCHANGED <<begun, answered>>

Next ==
  \/ \E i \in Inputs : Invoke(i)
  \/ \E p \in pending : Answer(p) \/ Lose(p)

Spec == Init /\ [][Next]_vars
=============================================================================
