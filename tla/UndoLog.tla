------------------------------- MODULE UndoLog -------------------------------
(***************************************************************************)
(* What the apply/rollback controller promises when nobody disturbs it     *)
(* (rfcs/002, Apply/Rollback): files change by whole bundles, every apply  *)
(* leaves an entry that says what was there before and after, and an entry *)
(* is undone, as a whole, only when its after-state is what is there.      *)
(* ApplyRollback does the same path by path.                               *)
(***************************************************************************)
CONSTANTS
  Paths,
  Values,    \* what a path may hold: a content, or Absent
  Null,      \* what a partial state says of a path outside it
  Plans      \* partial states that bundles leave behind

VARIABLES
  files,     \* what every path holds
  log,       \* entries: the state of the changed paths before and after
  undone     \* the entries that were undone at least once

vars == <<files, log, undone>>

\* The files with a partial state put over them, and the part of the files a
\* partial state is about.
Overlay(part) == [p \in Paths |-> IF part[p] # Null THEN part[p] ELSE files[p]]
Under(part)   == [p \in Paths |-> IF part[p] # Null THEN files[p] ELSE Null]

Init == files \in [Paths -> Values] /\ log = {} /\ undone = {}

\* A whole plan is applied and its entry kept.
Apply(plan) ==
  /\ files' = Overlay(plan)
  /\ log' = log \cup {[before |-> Under(plan), after |-> plan]}
  /\ UNCHANGED undone

\* A dry run keeps an entry of nothing done.
Preview(plan) ==
  /\ log' = log \cup {[before |-> Under(plan), after |-> Under(plan)]}
  /\ UNCHANGED <<files, undone>>

\* An entry is undone where its after-state is what is there.
Undo(entry) ==
  /\ Under(entry.after) = entry.after
  /\ files' = Overlay(entry.before)
  /\ undone' = undone \cup {entry}
  /\ UNCHANGED log

\* Someone else changes one file.
Edit(p, v) ==
  /\ files' = [files EXCEPT ![p] = v]
  /\ UNCHANGED <<log, undone>>

Next ==
  \/ \E plan \in Plans : Apply(plan) \/ Preview(plan)
  \/ \E entry \in log : Undo(entry)
  \/ \E p \in Paths, v \in Values : Edit(p, v)

Spec == Init /\ [][Next]_vars
=============================================================================
