-------------------------- MODULE MCWorkspaceScan --------------------------
(* Values for the constants of WorkspaceScan.                                *)
EXTENDS WorkspaceScan

\* A file beside a directory with a file in it, and what a pattern ignores or
\* git does.
In == [p \in Below |-> IF p = "d/a.ts" THEN "d" ELSE "."]

\* The larger content is beyond what a mapping reads.
Sizes == [n \in Contents \cup {Dir} |-> IF n = "long" THEN 3 ELSE 1]

TreeOf(a, b) ==
  [p \in Paths |->
     IF p \in {".", "d"} THEN Dir ELSE IF p = "d/a.ts" THEN a
     ELSE IF p = "b.bin" THEN b ELSE "short"]
OneTree == {TreeOf("short", "short")}
=============================================================================
