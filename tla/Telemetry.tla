----------------------------- MODULE Telemetry -----------------------------
(* The append-only files of the runtime: trace ledger, FeedbackTensor and    *)
(* trace inspection.  Each is a file of lines that any process may append to *)
(* with one appendFileSync.  An append that fails, or whose process dies,    *)
(* may have left nothing, a piece of its line or all of it; the next append  *)
(* after a piece is glued to it, and neither can be read.                    *)
EXTENDS Sequences

CONSTANT Garbled      \* a line no reader can parse

\* A file: its finished lines, and whether an unfinished one is at its end.
LogOf(Entries) ==
  [lines : Seq(Entries \cup {Garbled}), torn : BOOLEAN]

EmptyLog == [lines |-> <<>>, torn |-> FALSE]

Appended(log, entry) ==
  [lines |-> Append(log.lines, IF log.torn THEN Garbled ELSE entry),
   torn  |-> FALSE]

\* The lines of a file that a reader can parse.
Readable(log) == {i \in DOMAIN log.lines : log.lines[i] # Garbled}

FailedAppends(log, entry) ==
  {log, [log EXCEPT !.torn = TRUE], Appended(log, entry)}
=============================================================================
